---- MODULE Spec2Model ----
(***************************************************************************)
(* Verification model of the rabbit-quant backtesting core:                *)
(*   - simulate_portfolio_nb / build_entries_exits  (backtest/vbt_runner)  *)
(*   - run_parameter_sweep                          (backtest/vbt_runner)  *)
(*   - _determine_signal                            (signals/filters)      *)
(*   - calculate_hurst / _hurst_rs                  (signals/fractals)     *)
(*                                                                         *)
(* Number encoding.  Prices, ATR and stops are held in thousandths, so     *)
(* that entry_price * 1.002 and entry_price * 0.998 are exact integers.    *)
(* Hurst values are held in hundredths, choppiness values in tenths.       *)
(* Angles are held in units of pi/8, so that 2*pi = 16.  Ranking scores    *)
(* are held in units of 10, so that the -1e10 fill value fits an integer.  *)
(***************************************************************************)
EXTENDS Integers, Sequences, FiniteSets, TLC

\* ---------------------------------------------------------------- bounds
NTime == 4
NAssets == 2
MaxCap == 2

\* Largest size of one grid of the parameter sweep.
MaxRange == 2

\* Longest price series handed to the persistence estimator.
MaxBars == 32

\* Significant bits of the model's floating-point numbers.
SigBits == 8

\* Bars beyond the shortest series the cycle detector accepts.
CycleExtra == 1

\* The largest number of (symbol, timeframe) keys in one batch.
MaxPairs == 4

\* The largest worker pool.
MaxWorkers == 2

\* ------------------------------------------------------ program constants
htf_threshold == 450
ltf_threshold == 618
veto_threshold == 3
hurst_threshold == 60
trailing_multiplier == 2
breakeven_threshold == 1
phase_long_center == 12
phase_short_center == 4
phase_tolerance == 2
TwoPi == 16
ScoreFill == -1000000000
ScoreCut == -100000000

\* The cycle detector: shortest accepted series, and the period range.
MinCycleBars == 256

min_period == 10

max_period == 200

\* The neutral default 0.5 of the persistence estimator, in thousandths.
HurstDefault == 500

\* Fixed-point scales of the estimator: R/S in sixteenths, logarithms
\* in sixty-fourths.
RsScale == 16

LogScale == 64

\* The value that stands for a floating-point NaN in a price series.
NaN == -1000000

VARIABLES
    \* simulate_portfolio_nb / build_entries_exits
    n_time, n_assets, phase_len, max_concurrent_trades, macro_filter_type,
    pc, i, a,
    in_position_long, in_position_short, entry_price, highest_price,
    lowest_price, stop_loss, is_breakeven, open_trades_count,
    scores, dirs, sorted_indices,
    long_entries, long_exits, short_entries, short_exits,
    phase_row, phase_prev, direction_row, refused, hurst_value, oob_read,
    \* run_parameter_sweep
    sw_sizes, sw_bad_mf, sw_pc, sw_idx, sw_mf, sw_row, sw_results, sw_calls,
    \* _determine_signal
    sig_pc, current_phase, sig_hurst, sig_threshold, sig_out,
    \* calculate_hurst / _hurst_rs
    hu_pc, hu_df, hu_prices, hu_out,
    \* detect_dominant_cycle / detect_dominant_cycle_filtered / _analyze_cycle
    cy_pc, cy_entry, cy_n, fft_vals, peak_idx, amplitude, phase_angle, phase_array,
    cy_current_phase,
    \* run_backtest
    rb_pc, rb_fault, rb_trades, rb_result,
    \* generate_signals_batch
    gb_pc, data_dict, max_workers, outcome, futures, results

simVars == << n_time, n_assets, phase_len, max_concurrent_trades, macro_filter_type,
              pc, i, a,
              in_position_long, in_position_short, entry_price, highest_price,
              lowest_price, stop_loss, is_breakeven, open_trades_count,
              scores, dirs, sorted_indices,
              long_entries, long_exits, short_entries, short_exits,
              phase_row, phase_prev, direction_row, refused, hurst_value, oob_read >>

sweepVars == << sw_sizes, sw_bad_mf, sw_pc, sw_idx, sw_mf, sw_row, sw_results, sw_calls >>

sigVars == << sig_pc, current_phase, sig_hurst, sig_threshold, sig_out >>

huVars == << hu_pc, hu_df, hu_prices, hu_out >>

cyVars == << cy_pc, cy_entry, cy_n, fft_vals, peak_idx, amplitude, phase_angle, phase_array,
            cy_current_phase >>

rbVars == << rb_pc, rb_fault, rb_trades, rb_result >>

gbVars == << gb_pc, data_dict, max_workers, outcome, futures, results >>

vars == << simVars, sweepVars, sigVars, huVars, cyVars, rbVars, gbVars >>

\* ------------------------------------------------------------ input sets
\* The assets of the run: the columns of close.
Assets == 0 .. (n_assets - 1)

\* The values the cells of the input matrices are drawn from.  A run over one
\* asset draws its prices from several levels; a run over several assets
\* from one level, where ATR alone decides whether a stop is hit.
Prices == IF n_assets = 1 THEN {1000, 2000} ELSE {1000}
AtrVals == {0, 1000}
PhaseVals == {4, 28, -8}
HurstVals == {30, 60, 70}
LtfVals == {500, 1000}
HtfVals == {0, 500}
ZscoreVals == {0, 3}
DirectionVals == {-1, 0, 1}
RankVals == {0, 1}

Abs(x) == IF x < 0 THEN -x ELSE x

\* np.zeros((n_time, n_assets), dtype=np.bool_)
ZeroMatrix(n) == [t \in 0 .. (n - 1) |-> [b \in Assets |-> FALSE]]

AnyTrue(m) == \E t \in DOMAIN m : \E b \in Assets : m[t][b]

\* ------------------------------------------------- build_entries_exits
\* The arguments of one call: the shape of close, the length of the phase
\* array (-1 stands for phase_array=None), the concurrency cap and the
\* macro filter (0 = chop, 1 = hurst, 2 = both).  Either the lengths agree
\* and the cap and the filter range over their values, or the call is a
\* degenerate one (no phase array, a phase array of another length, no bars)
\* on a 1-D close with the default filter.  hurst_value is handed over as
\* one value per asset, held over all bars (np.full_like); under the chop
\* filter, which never consults it, it is taken below the threshold.
SimInit ==
    /\ \/ /\ n_time = NTime
          /\ phase_len = n_time
          /\ n_assets \in {1, NAssets}
          /\ max_concurrent_trades \in 0 .. MaxCap
          /\ \/ /\ macro_filter_type = 0
                /\ hurst_value \in [Assets -> {30}]
             \/ /\ macro_filter_type \in {1, 2}
                /\ hurst_value \in [Assets -> HurstVals]
       \/ /\ n_time \in {0, NTime}
          /\ phase_len \in {-1, n_time + 1} \cup (IF n_time > 0 THEN {n_time - 1} ELSE {0})
          /\ n_assets = 1
          /\ max_concurrent_trades = MaxCap
          /\ macro_filter_type = 2
          /\ hurst_value \in [Assets -> {70}]
    /\ pc = "build"
    /\ i = 0
    /\ a = 0
    /\ in_position_long = [b \in Assets |-> FALSE]
    /\ in_position_short = [b \in Assets |-> FALSE]
    /\ entry_price = [b \in Assets |-> 0]
    /\ highest_price = [b \in Assets |-> 0]
    /\ lowest_price = [b \in Assets |-> 0]
    /\ stop_loss = [b \in Assets |-> 0]
    /\ is_breakeven = [b \in Assets |-> FALSE]
    /\ open_trades_count = 0
    /\ scores = [b \in Assets |-> ScoreFill]
    /\ dirs = [b \in Assets |-> 0]
    /\ sorted_indices = << >>
    /\ long_entries = ZeroMatrix(n_time)
    /\ long_exits = ZeroMatrix(n_time)
    /\ short_entries = ZeroMatrix(n_time)
    /\ short_exits = ZeroMatrix(n_time)
    /\ phase_row = [b \in Assets |-> << >>]
    /\ direction_row = [b \in Assets |-> << >>]
    /\ refused = [b \in Assets |-> 0]
    /\ phase_prev = [b \in Assets |-> << >>]
    /\ oob_read = FALSE


\* The call enters build_entries_exits: phase_array None returns all-False
\* matrices at once; otherwise the arrays are handed to simulate_portfolio_nb,
\* whose bar loop runs over range(1, n_time).
Build ==
    /\ pc = "build"
    /\ IF phase_len = -1 \/ n_time <= 1
       THEN /\ pc' = "done"
            /\ i' = i
       ELSE /\ pc' = "exits"
            /\ i' = 1
    /\ a' = 0
    /\ UNCHANGED << sweepVars, sigVars, huVars, cyVars, rbVars, gbVars, n_time, n_assets, phase_len, max_concurrent_trades, macro_filter_type,
                    in_position_long, in_position_short, entry_price,
                    highest_price, lowest_price, stop_loss, is_breakeven,
                    open_trades_count, scores, dirs, sorted_indices,
                    long_entries, long_exits, short_entries, short_exits,
                    phase_row, phase_prev, direction_row, refused, hurst_value, oob_read >>

\* ------------------------------------- simulate_portfolio_nb: exit phase
\* LONG: running high, trailing stop, breakeven ratchet, exit test.
HighestAfterKept(b, hi) == highest_price[b]

HighestAfter(b, hi) == IF hi > highest_price[b] THEN hi ELSE highest_price[b]

LongTrailingUnratcheted(b, hi, at) == HighestAfter(b, hi) - (at * trailing_multiplier)

LongTrailing(b, hi, at) ==
    LET current_trailing == HighestAfter(b, hi) - (at * trailing_multiplier)
    IN  IF current_trailing > stop_loss[b] THEN current_trailing ELSE stop_loss[b]

BeLevelLong(b) == (entry_price[b] * 1002) \div 1000

LongBreakevenReached(b, hi, at) ==
    /\ ~is_breakeven[b]
    /\ hi >= entry_price[b] + (at * breakeven_threshold)

LongBreakeven(b, hi, at) ==
    /\ ~is_breakeven[b]
    /\ hi >= entry_price[b] + (at * breakeven_threshold)
    /\ BeLevelLong(b) > LongTrailing(b, hi, at)

LongStopTrailingOnly(b, hi, at) == LongTrailing(b, hi, at)

LongStop(b, hi, at) ==
    IF LongBreakeven(b, hi, at) THEN BeLevelLong(b) ELSE LongTrailing(b, hi, at)

LongExitTestStale(b, hi, at, cl) == cl <= stop_loss[b]

LongExitTest(b, hi, at, cl) == cl <= LongStop(b, hi, at)

\* SHORT: mirror image.
LowestAfter(b, lo) == IF lo < lowest_price[b] THEN lo ELSE lowest_price[b]

ShortTrailing(b, lo, at) ==
    LET current_trailing == LowestAfter(b, lo) + (at * trailing_multiplier)
    IN  IF current_trailing < stop_loss[b] THEN current_trailing ELSE stop_loss[b]

BeLevelShort(b) == (entry_price[b] * 998) \div 1000

ShortBreakeven(b, lo, at) ==
    /\ ~is_breakeven[b]
    /\ lo <= entry_price[b] - (at * breakeven_threshold)
    /\ BeLevelShort(b) < ShortTrailing(b, lo, at)

ShortStop(b, lo, at) ==
    IF ShortBreakeven(b, lo, at) THEN BeLevelShort(b) ELSE ShortTrailing(b, lo, at)

ShortExitTest(b, lo, at, cl) == cl >= ShortStop(b, lo, at)

\* The branch of the exit phase an asset takes, and the budget after an exit.
IsLong(b) == in_position_long[b]

IsShortUnchecked(b) == ~in_position_long[b]

IsShort(b) == ~in_position_long[b] /\ in_position_short[b]

CountAfterExitKept == open_trades_count

CountAfterExit == open_trades_count - 1

\* What the exit phase leaves alone.
ExitFrame ==
    UNCHANGED << sweepVars, sigVars, huVars, cyVars, rbVars, gbVars, n_time, n_assets, phase_len, max_concurrent_trades, macro_filter_type,
                 pc, i, entry_price, scores, dirs, sorted_indices,
                 long_entries, short_entries,
                 phase_row, phase_prev, direction_row, refused, hurst_value, oob_read >>

\* The body of the long branch for a bar of high hi, close cl and ATR at.
LongBar(hi, cl, at) ==
    /\ highest_price' = [highest_price EXCEPT ![a] = HighestAfter(a, hi)]
    /\ stop_loss' = [stop_loss EXCEPT ![a] = LongStop(a, hi, at)]
    /\ is_breakeven' = [is_breakeven EXCEPT ![a] = @ \/ LongBreakeven(a, hi, at)]
    /\ IF LongExitTest(a, hi, at, cl)
       THEN /\ long_exits' = [long_exits EXCEPT ![i][a] = TRUE]
            /\ in_position_long' = [in_position_long EXCEPT ![a] = FALSE]
            /\ open_trades_count' = CountAfterExit
       ELSE UNCHANGED << long_exits, in_position_long, open_trades_count >>

ExitLong ==
    /\ pc = "exits"
    /\ a < n_assets
    /\ IsLong(a)
    /\ \E hi \in Prices, cl \in Prices, at \in AtrVals : LongBar(hi, cl, at)
    /\ a' = a + 1
    /\ UNCHANGED << lowest_price, in_position_short, short_exits >>
    /\ ExitFrame

\* The body of the short branch for a bar of low lo, close cl and ATR at.
ShortBar(lo, cl, at) ==
    /\ lowest_price' = [lowest_price EXCEPT ![a] = LowestAfter(a, lo)]
    /\ stop_loss' = [stop_loss EXCEPT ![a] = ShortStop(a, lo, at)]
    /\ is_breakeven' = [is_breakeven EXCEPT ![a] = @ \/ ShortBreakeven(a, lo, at)]
    /\ IF ShortExitTest(a, lo, at, cl)
       THEN /\ short_exits' = [short_exits EXCEPT ![i][a] = TRUE]
            /\ in_position_short' = [in_position_short EXCEPT ![a] = FALSE]
            /\ open_trades_count' = CountAfterExit
       ELSE UNCHANGED << short_exits, in_position_short, open_trades_count >>

ExitShort ==
    /\ pc = "exits"
    /\ a < n_assets
    /\ IsShort(a)
    /\ \E lo \in Prices, cl \in Prices, at \in AtrVals : ShortBar(lo, cl, at)
    /\ a' = a + 1
    /\ UNCHANGED << highest_price, in_position_long, long_exits >>
    /\ ExitFrame

ExitFlat ==
    /\ pc = "exits"
    /\ a < n_assets
    /\ ~IsLong(a)
    /\ ~IsShort(a)
    /\ a' = a + 1
    /\ UNCHANGED << highest_price, lowest_price, stop_loss, is_breakeven,
                    in_position_long, in_position_short, open_trades_count,
                    long_exits, short_exits >>
    /\ ExitFrame

\* ------------------------------------ simulate_portfolio_nb: entry phase
\* The budget gate: candidates are scanned only while a slot is free.
EntryGate ==
    /\ pc = "exits"
    /\ a = n_assets
    /\ IF open_trades_count < max_concurrent_trades
       THEN /\ scores' = [b \in Assets |-> ScoreFill]
            /\ dirs' = [b \in Assets |-> 0]
            /\ pc' = "scan"
       ELSE /\ pc' = "next"
            /\ UNCHANGED << scores, dirs >>
    /\ a' = 0
    /\ UNCHANGED << sweepVars, sigVars, huVars, cyVars, rbVars, gbVars, n_time, n_assets, phase_len, max_concurrent_trades, macro_filter_type,
                    i, in_position_long, in_position_short, entry_price,
                    highest_price, lowest_price, stop_loss, is_breakeven,
                    open_trades_count, sorted_indices,
                    long_entries, long_exits, short_entries, short_exits,
                    phase_row, phase_prev, direction_row, refused, hurst_value, oob_read >>

\* The macro filter: 0 = chop, 1 = hurst, anything else = both.
ChopValid(htf, ltf) == (htf < htf_threshold) /\ (ltf > ltf_threshold)

HurstValid(hv) == hv > hurst_threshold

MacroValidEither(htf, ltf, hv) ==
    IF macro_filter_type = 0 THEN ChopValid(htf, ltf)
    ELSE IF macro_filter_type = 1 THEN HurstValid(hv)
    ELSE ChopValid(htf, ltf) \/ HurstValid(hv)

MacroValid(htf, ltf, hv) ==
    IF macro_filter_type = 0 THEN ChopValid(htf, ltf)
    ELSE IF macro_filter_type = 1 THEN HurstValid(hv)
    ELSE ChopValid(htf, ltf) /\ HurstValid(hv)

\* abs(phase - center) < phase_tolerance on the phase normalised to one turn.
InZone(ph, center) == Abs((ph % TwoPi) - center) < phase_tolerance

\* dirs[a] of a candidate: 1 = long, -1 = short, 0 = none.  A direction of
\* exactly 0 takes the first branch only.
CandidateDirLevel(ph, pp, hd) ==
    IF hd >= 0
    THEN IF InZone(ph, phase_long_center) THEN 1 ELSE 0
    ELSE IF hd <= 0
    THEN IF InZone(ph, phase_short_center) THEN -1 ELSE 0
    ELSE 0

CandidateDir(ph, pp, hd) ==
    IF hd >= 0
    THEN IF InZone(ph, phase_long_center) /\ ~InZone(pp, phase_long_center) THEN 1 ELSE 0
    ELSE IF hd <= 0
    THEN IF InZone(ph, phase_short_center) /\ ~InZone(pp, phase_short_center) THEN -1 ELSE 0
    ELSE 0

CandidateScore(d, rm) == IF d = 1 THEN rm ELSE IF d = -1 THEN -rm ELSE ScoreFill

\* The values a read of phase_array[t, b] can give: the cell once it has
\* been read, any value before that (also past the end of the array).
PhaseCell(row, b) == IF row[b] = << >> THEN PhaseVals ELSE {row[b][1]}

ScanFrame ==
    UNCHANGED << sweepVars, sigVars, huVars, cyVars, rbVars, gbVars, n_time, n_assets, phase_len, max_concurrent_trades, macro_filter_type,
                 pc, i, in_position_long, in_position_short, entry_price,
                 highest_price, lowest_price, stop_loss, is_breakeven,
                 open_trades_count, sorted_indices,
                 long_entries, long_exits, short_entries, short_exits,
                 refused, hurst_value >>

\* An asset that is positioned, or exited at this bar, is passed over.
PositionedShortOnly(b) ==
    in_position_short[b] \/ long_exits[i][b] \/ short_exits[i][b]

PositionedFlagsOnly(b) == in_position_long[b] \/ in_position_short[b]

Positioned(b) ==
    in_position_long[b] \/ in_position_short[b] \/ long_exits[i][b] \/ short_exits[i][b]

ScanSkip ==
    /\ pc = "scan"
    /\ a < n_assets
    /\ Positioned(a)
    /\ a' = a + 1
    /\ UNCHANGED << scores, dirs, phase_row, phase_prev, direction_row, oob_read >>
    /\ ScanFrame

ScanFlat ==
    /\ pc = "scan"
    /\ a < n_assets
    /\ ~Positioned(a)

\* The volatility veto: nothing after the phase of this bar is read.
ScanVeto ==
    /\ ScanFlat
    /\ \E ph \in PhaseVals, vz \in ZscoreVals :
        /\ vz >= veto_threshold
        /\ phase_row' = [phase_row EXCEPT ![a] = << ph >>]
        /\ direction_row' = direction_row
        /\ phase_prev' = phase_prev
    /\ oob_read' = (oob_read \/ i >= phase_len)
    /\ a' = a + 1
    /\ UNCHANGED << scores, dirs >>
    /\ ScanFrame

\* The macro filter refuses the asset.
ScanFiltered ==
    /\ ScanFlat
    /\ \E ph \in PhaseVals, vz \in ZscoreVals, htf \in HtfVals, ltf \in LtfVals :
        /\ ~(vz >= veto_threshold)
        /\ ~MacroValid(htf, ltf, hurst_value[a])
        /\ phase_row' = [phase_row EXCEPT ![a] = << ph >>]
        /\ direction_row' = direction_row
        /\ phase_prev' = phase_prev
    /\ oob_read' = (oob_read \/ i >= phase_len)
    /\ a' = a + 1
    /\ UNCHANGED << scores, dirs >>
    /\ ScanFrame

\* The asset passes both: the edge test against the previous bar's phase
\* decides whether it becomes a candidate, and on which side.
ScanEdge ==
    /\ ScanFlat
    /\ \E ph \in PhaseVals, vz \in ZscoreVals, htf \in HtfVals, ltf \in LtfVals,
          pp \in PhaseCell(phase_prev, a),
          hd \in DirectionVals, rm \in RankVals :
        /\ ~(vz >= veto_threshold)
        /\ MacroValid(htf, ltf, hurst_value[a])
        /\ phase_row' = [phase_row EXCEPT ![a] = << ph >>]
        /\ direction_row' = [direction_row EXCEPT ![a] = << hd >>]
        /\ phase_prev' = [phase_prev EXCEPT ![a] = << pp >>]
        /\ dirs' = [dirs EXCEPT ![a] = CandidateDir(ph, pp, hd)]
        /\ scores' = [scores EXCEPT ![a] = CandidateScore(CandidateDir(ph, pp, hd), rm)]
    /\ oob_read' = (oob_read \/ i >= phase_len)
    /\ a' = a + 1
    /\ ScanFrame

\* np.argsort(scores)[::-1]: the assets in an order of non-increasing score.
\* The order among equal scores is whatever the sort produces; every such
\* order is an outcome.
AssetOrders ==
    {f \in [1 .. n_assets -> Assets] : \A x \in Assets : \E k \in DOMAIN f : f[k] = x}

IsSortedAny(f) == TRUE

IsSortedDescending(f) ==
    \A k \in 1 .. (Len(f) - 1) : scores[f[k]] >= scores[f[k + 1]]

SortScores ==
    /\ pc = "scan"
    /\ a = n_assets
    /\ \E f \in AssetOrders :
        /\ IsSortedDescending(f)
        /\ sorted_indices' = f
    /\ pc' = "admit"
    /\ a' = 0
    /\ UNCHANGED << sweepVars, sigVars, huVars, cyVars, rbVars, gbVars, n_time, n_assets, phase_len, max_concurrent_trades, macro_filter_type,
                    i, in_position_long, in_position_short, entry_price,
                    highest_price, lowest_price, stop_loss, is_breakeven,
                    open_trades_count, scores, dirs,
                    long_entries, long_exits, short_entries, short_exits,
                    phase_row, phase_prev, direction_row, refused, hurst_value, oob_read >>

\* The admission loop stops at the first asset that is no candidate, or as
\* soon as the budget is full; a holds the position within sorted_indices.
AdmitBreakScoreOnly(b) == scores[b] <= ScoreCut

AdmitBreakOneShort(b) == scores[b] <= ScoreCut \/ open_trades_count + 1 >= max_concurrent_trades

AdmitBreak(b) == scores[b] <= ScoreCut \/ open_trades_count >= max_concurrent_trades

AdmitFrame ==
    UNCHANGED << sweepVars, sigVars, huVars, cyVars, rbVars, gbVars, n_time, n_assets, phase_len, max_concurrent_trades, macro_filter_type,
                 i, scores, dirs, sorted_indices, long_exits, short_exits,
                 phase_row, phase_prev, direction_row, refused, hurst_value, oob_read >>

\* is_breakeven[a] = False
BreakevenAtEntryKept(b) == is_breakeven[b]

BreakevenAtEntry(b) == FALSE

\* The body of the admission loop for asset b on the long (short) side, at
\* a bar of close cl, high hi, low lo and ATR at.
LongOpen(b, cl, hi, lo, at) ==
    /\ entry_price' = [entry_price EXCEPT ![b] = cl]
    /\ highest_price' = [highest_price EXCEPT ![b] = hi]
    /\ lowest_price' = [lowest_price EXCEPT ![b] = lo]
    /\ stop_loss' = [stop_loss EXCEPT ![b] = cl - (at * trailing_multiplier)]
    /\ is_breakeven' = [is_breakeven EXCEPT ![b] = BreakevenAtEntry(b)]
    /\ long_entries' = [long_entries EXCEPT ![i][b] = TRUE]
    /\ in_position_long' = [in_position_long EXCEPT ![b] = TRUE]

ShortOpen(b, cl, hi, lo, at) ==
    /\ entry_price' = [entry_price EXCEPT ![b] = cl]
    /\ highest_price' = [highest_price EXCEPT ![b] = hi]
    /\ lowest_price' = [lowest_price EXCEPT ![b] = lo]
    /\ stop_loss' = [stop_loss EXCEPT ![b] = cl + (at * trailing_multiplier)]
    /\ is_breakeven' = [is_breakeven EXCEPT ![b] = BreakevenAtEntry(b)]
    /\ short_entries' = [short_entries EXCEPT ![i][b] = TRUE]
    /\ in_position_short' = [in_position_short EXCEPT ![b] = TRUE]

AdmitLong ==
    /\ pc = "admit"
    /\ a < n_assets
    /\ LET b == sorted_indices[a + 1] IN
        /\ ~AdmitBreak(b)
        /\ dirs[b] = 1
        /\ \E cl \in Prices, hi \in Prices, lo \in Prices, at \in AtrVals :
              LongOpen(b, cl, hi, lo, at)
    /\ open_trades_count' = open_trades_count + 1
    /\ a' = a + 1
    /\ UNCHANGED << pc, short_entries, in_position_short >>
    /\ AdmitFrame

AdmitShort ==
    /\ pc = "admit"
    /\ a < n_assets
    /\ LET b == sorted_indices[a + 1] IN
        /\ ~AdmitBreak(b)
        /\ dirs[b] # 1
        /\ \E cl \in Prices, hi \in Prices, lo \in Prices, at \in AtrVals :
              ShortOpen(b, cl, hi, lo, at)
    /\ open_trades_count' = open_trades_count + 1
    /\ a' = a + 1
    /\ UNCHANGED << pc, long_entries, in_position_long >>
    /\ AdmitFrame

\* The loop ends: by break, or with sorted_indices exhausted.
AdmitEnd ==
    /\ pc = "admit"
    /\ IF a = n_assets THEN TRUE ELSE AdmitBreak(sorted_indices[a + 1])
    /\ pc' = "next"
    /\ UNCHANGED << a, entry_price, highest_price, lowest_price, stop_loss,
                    is_breakeven, open_trades_count, long_entries, short_entries,
                    in_position_long, in_position_short >>
    /\ AdmitFrame

\* History of the entry phase, kept for the properties only: the side on
\* which asset b was a candidate at this bar without being admitted, or on
\* which it was refused earlier and has stayed in the zone since; 0 if none.
RefusedSide(b) ==
    IF long_entries[i][b] \/ short_entries[i][b] THEN 0
    ELSE IF direction_row[b] # << >> /\ dirs[b] # 0 THEN dirs[b]
    ELSE IF /\ refused[b] = 1
            /\ phase_row[b] # << >>
            /\ InZone(phase_row[b][1], phase_long_center) THEN 1
    ELSE IF /\ refused[b] = -1
            /\ phase_row[b] # << >>
            /\ InZone(phase_row[b][1], phase_short_center) THEN -1
    ELSE 0

\* The bar loop advances, or the four matrices are returned.  scores, dirs
\* and sorted_indices are locals of one bar's entry phase: they go out of
\* scope here and are created afresh before the next read.
NextBar ==
    /\ pc = "next"
    /\ i' = i + 1
    /\ pc' = IF i + 1 < n_time THEN "exits" ELSE "done"
    /\ a' = 0
    /\ phase_prev' = phase_row
    /\ phase_row' = [b \in Assets |-> << >>]
    /\ direction_row' = [b \in Assets |-> << >>]
    /\ refused' = [b \in Assets |-> RefusedSide(b)]
    /\ scores' = [b \in Assets |-> ScoreFill]
    /\ dirs' = [b \in Assets |-> 0]
    /\ sorted_indices' = << >>
    /\ UNCHANGED << sweepVars, sigVars, huVars, cyVars, rbVars, gbVars, n_time, n_assets, phase_len, max_concurrent_trades, macro_filter_type,
                    in_position_long, in_position_short, entry_price,
                    highest_price, lowest_price, stop_loss, is_breakeven,
                    open_trades_count,
                    long_entries, long_exits, short_entries, short_exits,
                    hurst_value, oob_read >>

\* The simulation before any call: no bars, nothing open.
SimIdle ==
    /\ n_time = 0
    /\ n_assets = 1
    /\ phase_len = 0
    /\ max_concurrent_trades = 0
    /\ macro_filter_type = 2
    /\ hurst_value = [b \in Assets |-> 0]
    /\ pc = "idle"
    /\ i = 0
    /\ a = 0
    /\ in_position_long = [b \in Assets |-> FALSE]
    /\ in_position_short = [b \in Assets |-> FALSE]
    /\ entry_price = [b \in Assets |-> 0]
    /\ highest_price = [b \in Assets |-> 0]
    /\ lowest_price = [b \in Assets |-> 0]
    /\ stop_loss = [b \in Assets |-> 0]
    /\ is_breakeven = [b \in Assets |-> FALSE]
    /\ open_trades_count = 0
    /\ scores = [b \in Assets |-> ScoreFill]
    /\ dirs = [b \in Assets |-> 0]
    /\ sorted_indices = << >>
    /\ long_entries = << >>
    /\ long_exits = << >>
    /\ short_entries = << >>
    /\ short_exits = << >>
    /\ phase_row = [b \in Assets |-> << >>]
    /\ direction_row = [b \in Assets |-> << >>]
    /\ refused = [b \in Assets |-> 0]
    /\ phase_prev = [b \in Assets |-> << >>]
    /\ oob_read = FALSE

\* ======================================================================
\* run_parameter_sweep (vbt_runner.py)
\* ======================================================================
\* The five grids.  A grid of size n holds n distinct values; the numeric
\* grids follow the spacing of the defaults (hurst in hundredths, the
\* others in tenths), the filter names are numbered.
hurst_range == [k \in 1 .. sw_sizes.ht |-> 30 + 5 * k]

phase_long_range == [k \in 1 .. sw_sizes.pl |-> 36 + 4 * k]

phase_short_range == [k \in 1 .. sw_sizes.ps |-> 7 + 3 * k]

trailing_multiplier_range == [k \in 1 .. sw_sizes.tm |-> 20 + 5 * k]

macro_filter_type_range == [k \in 1 .. sw_sizes.mf |-> k]

total_combos ==
    Len(hurst_range) * Len(phase_long_range) * Len(phase_short_range)
        * Len(trailing_multiplier_range) * Len(macro_filter_type_range)

\* ltf_chop_threshold = 50 - 118 * (ht - 0.5), in hundredths.
LtfChopThreshold(ht) == 5000 - 118 * (ht - 50)

SweepInit ==
    /\ sw_sizes \in [ht : 0 .. MaxRange, pl : 0 .. MaxRange, ps : 0 .. MaxRange,
                     tm : 0 .. MaxRange, mf : 0 .. MaxRange]
    /\ sw_bad_mf \in 0 .. sw_sizes.mf
    /\ sw_pc = "start"
    /\ sw_idx = << >>
    /\ sw_mf = 0
    /\ sw_row = << >>
    /\ sw_results = << >>
    /\ sw_calls = << >>

SweepIdle ==
    /\ sw_sizes = [ht |-> 0, pl |-> 0, ps |-> 0, tm |-> 0, mf |-> 0]
    /\ sw_bad_mf = 0
    /\ sw_pc = "idle"
    /\ sw_idx = << >>
    /\ sw_mf = 0
    /\ sw_row = << >>
    /\ sw_results = << >>
    /\ sw_calls = << >>

\* results = [] and the entry into the four outer loops: the innermost
\* loop is reached only if none of the four outer grids is empty.
SweepStart ==
    /\ sw_pc = "start"
    /\ IF Len(hurst_range) = 0 \/ Len(phase_long_range) = 0
          \/ Len(phase_short_range) = 0 \/ Len(trailing_multiplier_range) = 0
       THEN sw_pc' = "return" /\ sw_idx' = << >> /\ sw_mf' = 0
       ELSE sw_pc' = "loop" /\ sw_idx' = << 1, 1, 1, 1 >> /\ sw_mf' = 1
    /\ UNCHANGED << sw_sizes, sw_bad_mf, sw_row, sw_results, sw_calls,
                    simVars, sigVars, huVars, cyVars, rbVars, gbVars >>

\* run_backtest is outside the sweep: it returns None for the filter
\* type Init marks as failing, and otherwise a metrics record, told apart
\* from every other invocation's by the serial it carries.
RunBacktestResult(mfk, serial) ==
    IF mfk = sw_bad_mf THEN << >>
    ELSE << [total_return |-> serial, total_trades |-> serial] >>

SweepRow(ht, pl, ps, tm, mf, result) ==
    [ hurst_threshold |-> ht, phase_long |-> pl, phase_short |-> ps,
      trailing_multiplier |-> tm, macro_filter_type |-> mf,
      total_return |-> IF result # << >> THEN result[1].total_return ELSE 0,
      total_trades |-> IF result # << >> THEN result[1].total_trades ELSE 0 ]

\* One pass of the body of `for mf in macro_filter_type_range`: the call
\* and the assignment to row.
SweepRun ==
    /\ sw_pc = "loop"
    /\ sw_mf <= Len(macro_filter_type_range)
    /\ LET ht == hurst_range[sw_idx[1]]
           pl == phase_long_range[sw_idx[2]]
           ps == phase_short_range[sw_idx[3]]
           tm == trailing_multiplier_range[sw_idx[4]]
           mf == macro_filter_type_range[sw_mf]
           serial == Len(sw_calls) + 1
           result == RunBacktestResult(sw_mf, serial)
       IN  /\ sw_calls' = Append(sw_calls,
                  [ hurst_threshold |-> ht, ltf_threshold |-> LtfChopThreshold(ht),
                    htf_threshold |-> htf_threshold, macro_filter_type |-> mf,
                    trailing_multiplier |-> tm, phase_long_center |-> pl,
                    phase_short_center |-> ps, serial |-> serial,
                    result |-> result ])
           /\ sw_row' = << SweepRow(ht, pl, ps, tm, mf, result) >>
    /\ sw_mf' = sw_mf + 1
    /\ UNCHANGED << sw_sizes, sw_bad_mf, sw_pc, sw_idx, sw_results,
                    simVars, sigVars, huVars, cyVars, rbVars, gbVars >>

\* The position the four outer loops move to next, << >> once they end.
SweepAdvance(idx) ==
    IF idx[4] < Len(trailing_multiplier_range)
    THEN << idx[1], idx[2], idx[3], idx[4] + 1 >>
    ELSE IF idx[3] < Len(phase_short_range)
    THEN << idx[1], idx[2], idx[3] + 1, 1 >>
    ELSE IF idx[2] < Len(phase_long_range)
    THEN << idx[1], idx[2] + 1, 1, 1 >>
    ELSE IF idx[1] < Len(hurst_range)
    THEN << idx[1] + 1, 1, 1, 1 >>
    ELSE << >>

AppendedRows == Append(sw_results, sw_row[1])

\* results.append(row): the statement that follows the loop over
\* macro_filter_type_range, in the body of the loop over
\* trailing_multiplier_range.
SweepAppend ==
    /\ sw_pc = "loop"
    /\ sw_mf > Len(macro_filter_type_range)
    /\ sw_row # << >>
    /\ sw_results' = AppendedRows
    /\ sw_idx' = SweepAdvance(sw_idx)
    /\ sw_pc' = IF SweepAdvance(sw_idx) = << >> THEN "return" ELSE "loop"
    /\ sw_mf' = 1
    /\ UNCHANGED << sw_sizes, sw_bad_mf, sw_row, sw_calls,
                    simVars, sigVars, huVars, cyVars, rbVars, gbVars >>

\* results.append(row) with row never assigned: the name is unbound.
SweepRaise ==
    /\ sw_pc = "loop"
    /\ sw_mf > Len(macro_filter_type_range)
    /\ sw_row = << >>
    /\ sw_pc' = "raised"
    /\ UNCHANGED << sw_sizes, sw_bad_mf, sw_idx, sw_mf, sw_row, sw_results,
                    sw_calls, simVars, sigVars, huVars, cyVars, rbVars, gbVars >>

\* df = pd.DataFrame(results); return df
SweepReturn ==
    /\ sw_pc = "return"
    /\ sw_pc' = "done"
    /\ UNCHANGED << sw_sizes, sw_bad_mf, sw_idx, sw_mf, sw_row, sw_results,
                    sw_calls, simVars, sigVars, huVars, cyVars, rbVars, gbVars >>

\* ======================================================================
\* _determine_signal (filters.py)
\* ======================================================================
\* Angles are in units of pi/8, as in the simulation.
bottom_center == (3 * TwoPi) \div 4

top_center == TwoPi \div 4

signal_tolerance == TwoPi \div 8

SignalPhases == (0 - TwoPi) .. (3 * TwoPi)

SignalHursts == {40, 60, 70}

SignalThresholds == {50, 60}

SignalInit ==
    /\ sig_pc = "call"
    /\ current_phase \in SignalPhases
    /\ sig_hurst \in SignalHursts
    /\ sig_threshold \in SignalThresholds
    /\ sig_out = "none"

SignalIdle ==
    /\ sig_pc = "idle"
    /\ current_phase = 0
    /\ sig_hurst = 0
    /\ sig_threshold = 0
    /\ sig_out = "none"

BelowThresholdOrEqual(hv, th) == hv <= th

BelowThreshold(hv, th) == hv < th

DetermineSignalOf(cp, hv, th) ==
    IF BelowThreshold(hv, th) THEN "neutral"
    ELSE LET phase == cp % TwoPi
         IN  IF Abs(phase - bottom_center) < signal_tolerance THEN "long"
             ELSE IF Abs(phase - top_center) < signal_tolerance THEN "short"
             ELSE "neutral"

DetermineSignal ==
    /\ sig_pc = "call"
    /\ sig_out' = DetermineSignalOf(current_phase, sig_hurst, sig_threshold)
    /\ sig_pc' = "done"
    /\ UNCHANGED << current_phase, sig_hurst, sig_threshold,
                    simVars, sweepVars, huVars, cyVars, rbVars, gbVars >>

\* ======================================================================
\* calculate_hurst / _hurst_rs (fractals.py)
\* ======================================================================
\* Prices are floating-point numbers.  The model's floats are the integers
\* with at most SigBits significant bits; an addition rounds its exact
\* result to the nearest such number, ties to the even significand, as
\* binary64 does with 53 bits.  A division by a sub-series size (a power
\* of two) is exact, so mean_val is carried as the rounded sum, and the
\* deviations from it are carried multiplied by the size.
\* R/S is held in sixteenths, logarithms base 2 in sixty-fourths (the
\* slope of the regression is the same in any base), the returned
\* exponent in thousandths.
RECURSIVE Pow2(_)
Pow2(k) == IF k <= 0 THEN 1 ELSE 2 * Pow2(k - 1)

RECURSIVE FloorLog2(_)
FloorLog2(x) == IF x < 2 THEN 0 ELSE 1 + FloorLog2(x \div 2)

\* Round a non-negative exact value to the float format.
Fl(x) ==
    LET e == (IF x = 0 THEN 0 ELSE FloorLog2(x) + 1) - SigBits
    IN  IF e <= 0 THEN x
        ELSE LET u == Pow2(e)
                 q == x \div u
                 r == x % u
                 up == r > u \div 2 \/ (r = u \div 2 /\ q % 2 = 1)
             IN  (IF up THEN q + 1 ELSE q) * u

\* The one element of a one-element set.  A local of the code that is
\* assigned once and read many times is bound as the element of such a
\* set, which computes it once.
The(S) == CHOOSE x \in S : TRUE

\* mean_val * size: the loop `mean_val += subseries[k]`.
RECURSIVE MeanSum(_, _, _)
MeanSum(subseries, k, acc) ==
    IF k > Len(subseries) THEN acc
    ELSE The({MeanSum(subseries, k + 1, Fl(exact)) : exact \in {acc + subseries[k]}})

\* size * (subseries[k] - mean_val)
Deviations(subseries) ==
    The({[k \in 1 .. Len(subseries) |-> Len(subseries) * subseries[k] - total] :
            total \in {MeanSum(subseries, 1, 0)}})

\* Sums over d[lo .. hi], split in halves.
RECURSIVE SumSquares(_, _, _)
SumSquares(d, lo, hi) ==
    IF lo > hi THEN 0
    ELSE IF lo = hi THEN d[lo] * d[lo]
    ELSE SumSquares(d, lo, (lo + hi) \div 2) + SumSquares(d, (lo + hi) \div 2 + 1, hi)

\* std_val == 0.0
StdIsZero(d) == SumSquares(d, 1, Len(d)) = 0

RECURSIVE RangeSum(_, _, _)
RangeSum(d, lo, hi) ==
    IF lo > hi THEN 0
    ELSE IF lo = hi THEN d[lo]
    ELSE RangeSum(d, lo, (lo + hi) \div 2) + RangeSum(d, (lo + hi) \div 2 + 1, hi)

\* cum_dev[k - 1]
CumDev(d, k) == RangeSum(d, 1, k)

RECURSIVE GCD(_, _)
GCD(x, y) == IF y = 0 THEN x ELSE GCD(y, x % y)

RECURSIVE SeqGCD(_, _, _)
SeqGCD(d, lo, hi) ==
    IF lo > hi THEN 0
    ELSE IF lo = hi THEN Abs(d[lo])
    ELSE GCD(SeqGCD(d, lo, (lo + hi) \div 2), SeqGCD(d, (lo + hi) \div 2 + 1, hi))

RECURSIVE ISqrtBetween(_, _, _)
ISqrtBetween(x, lo, hi) ==
    IF lo >= hi THEN lo
    ELSE LET mid == (lo + hi + 1) \div 2
         IN  IF mid * mid <= x THEN ISqrtBetween(x, mid, hi)
             ELSE ISqrtBetween(x, lo, mid - 1)

ISqrt(x) == ISqrtBetween(x, 0, IF x < 46340 THEN x ELSE 46340)

\* r / std_val of one sub-series with non-zero deviation, in sixteenths.
\* The quotient does not change when all deviations are divided by a
\* common factor, which keeps the integers small.
RsQuotient(dn, cum) ==
    LET size == Len(dn)
        hi == CHOOSE x \in cum : \A y \in cum : y <= x
        lo == CHOOSE x \in cum : \A y \in cum : x <= y
        r == hi - lo
        den == SumSquares(dn, 1, size)
        rr == r * r * size
    IN  ISqrt((rr \div den) * (RsScale * RsScale)
              + ((rr % den) * (RsScale * RsScale)) \div den)

RescaledRange(d) ==
    The({The({RsQuotient(dn, cum) : cum \in {{CumDev(dn, k) : k \in 1 .. Len(dn)}}}) :
            dn \in {The({[k \in 1 .. Len(d) |-> d[k] \div g] :
                            g \in {SeqGCD(d, 1, Len(d))}})}})

SubSeries(prices, j, size) == SubSeq(prices, j * size + 1, j * size + size)

\* A sub-series holding a NaN: its mean, its std_val and its r are NaN,
\* std_val == 0.0 is false, so it is counted and makes rs_sum NaN.
HasNaN(subseries) == \E k \in 1 .. Len(subseries) : subseries[k] = NaN

\* << valid_count, rs_sum >> of the sub-series 0 .. j-1 of one size.
\* One pass of the loop over the sub-series: before is << valid_count,
\* rs_sum >> so far, d the deviations of the sub-series (none if it holds
\* a NaN).
RsStep(before, subseries, d) ==
    IF HasNaN(subseries) THEN << before[1] + 1, NaN >>
    ELSE IF StdIsZero(d) THEN before
    ELSE IF before[2] = NaN THEN << before[1] + 1, NaN >>
    ELSE << before[1] + 1, before[2] + RescaledRange(d) >>

RECURSIVE RsAccumulate(_, _, _)
RsAccumulate(prices, size, j) ==
    IF j = 0 THEN << 0, 0 >>
    ELSE The({The({RsStep(before, subseries, d) :
                      d \in {IF HasNaN(subseries) THEN << >> ELSE Deviations(subseries)}}) :
                 before \in {RsAccumulate(prices, size, j - 1)},
                 subseries \in {SubSeries(prices, j - 1, size)}})

\* log2 of a value held in sixteenths, in sixty-fourths: exact at the
\* powers of two and linear between them.
Log2Fixed(v) ==
    LET k == FloorLog2(v)
    IN  LogScale * k + (LogScale * (v - Pow2(k))) \div Pow2(k) - LogScale * FloorLog2(RsScale)

SizeAt(si) == Pow2(si + 2)

LogSizeAt(si) == LogScale * (si + 2)

\* log_rs[si]
LogRsAt(prices, si) ==
    LET size == SizeAt(si)
        num_subseries == Len(prices) \div size
    IN  IF num_subseries = 0 THEN 0
        ELSE The({IF acc[1] > 0
                  THEN (IF acc[2] = NaN THEN NaN ELSE Log2Fixed(acc[2] \div acc[1]))
                  ELSE 0 :
                     acc \in {RsAccumulate(prices, size, num_subseries)}})

RECURSIVE SumOver(_, _)
SumOver(f, used) ==
    IF used = {} THEN 0
    ELSE LET si == CHOOSE x \in used : TRUE
         IN  f[si] + SumOver(f, used \ {si})

\* log_rs[i] > 0.0, which is false of a NaN.
RegressionSizes(log_rs) ==
    {si \in DOMAIN log_rs : log_rs[si] # NaN /\ log_rs[si] > 0}

\* The sums of the least-squares fit over the sizes that take part; num
\* and den are both multiplied by count * count, which leaves num / den.
RegressionOf(log_rs) ==
    LET used == RegressionSizes(log_rs)
        count == Cardinality(used)
        sum_x == SumOver([si \in used |-> LogSizeAt(si)], used)
        sum_y == SumOver(log_rs, used)
        dx == [si \in used |-> count * LogSizeAt(si) - sum_x]
        dy == [si \in used |-> count * log_rs[si] - sum_y]
    IN  [ used |-> used,
          count |-> count,
          num |-> SumOver([si \in used |-> dx[si] * dy[si]], used),
          den |-> SumOver([si \in used |-> dx[si] * dx[si]], used) ]

Regression(prices) ==
    The({RegressionOf(log_rs) :
            log_rs \in {[si \in 0 .. (FloorLog2(Len(prices)) - 2) |-> LogRsAt(prices, si)]}})

\* hurst = num / den, in thousandths.
Slope(num, den) == (1000 * num) \div den

ClampNone(num, den) == Slope(num, den)

\* if hurst < 0.0: hurst = 0.0 elif hurst > 1.0: hurst = 1.0
Clamp(num, den) ==
    IF Slope(num, den) < 0 THEN 0
    ELSE IF num > den THEN 1000
    ELSE Slope(num, den)

HurstRS(prices) ==
    LET n == Len(prices)
        max_k == FloorLog2(n)
        min_k == 2
    IN  IF n < 20 THEN HurstDefault
        ELSE IF max_k <= min_k THEN HurstDefault
        ELSE The({IF reg.count < 2 THEN HurstDefault
                  ELSE IF reg.den = 0 THEN HurstDefault
                  ELSE Clamp(reg.num, reg.den) :
                     reg \in {Regression(prices)}})

\* The frames handed to calculate_hurst: None, a frame without the
\* column, or a frame whose column holds the series.
HurstPrices == {1, 5, Pow2(SigBits) - 51}

HurstShapes == {"constant", "saw", "ramp", "steps", "alternate", "nan_first", "nan_last"}

HurstSeries(n, c, shape) ==
    [k \in 1 .. n |->
        IF shape = "constant" THEN c
        ELSE IF shape = "saw" THEN c + (k % 4)
        ELSE IF shape = "ramp" THEN c + k
        ELSE IF shape = "steps" THEN c + (k % 2) + 2 * ((k \div 8) % 2)
        ELSE IF shape = "alternate" THEN c + (k % 2)
        ELSE IF shape = "nan_first" /\ k = 1 THEN NaN
        ELSE IF shape = "nan_last" /\ k = n THEN NaN
        ELSE c]

HurstInit ==
    /\ hu_pc = "call"
    /\ hu_df \in {"none", "missing_column", "frame"}
    /\ \E n \in 0 .. MaxBars, c \in HurstPrices, shape \in HurstShapes :
          /\ shape \in {"saw", "ramp", "steps", "alternate"} => c < Pow2(SigBits - 5)
          /\ hu_df = "none" => (n = 0 /\ c = 1 /\ shape = "constant")
          /\ hu_prices = HurstSeries(n, c, shape)
    /\ hu_out = -1

HurstIdle ==
    /\ hu_pc = "idle"
    /\ hu_df = "none"
    /\ hu_prices = << >>
    /\ hu_out = -1

\* calculate_hurst: the guard, then the column access and the estimator
\* inside try/except.
CalculateHurst ==
    /\ hu_pc = "call"
    /\ hu_out' = IF hu_df = "none" \/ Len(hu_prices) < 20 THEN HurstDefault
                 ELSE IF hu_df = "missing_column" THEN HurstDefault
                 ELSE HurstRS(hu_prices)
    /\ hu_pc' = "done"
    /\ UNCHANGED << hu_df, hu_prices, simVars, sweepVars, sigVars, cyVars, rbVars, gbVars >>

\* ======================================================================
\* detect_dominant_cycle / _analyze_cycle (cycles.py)
\* ======================================================================
\* The Fourier transform is outside the model: what it delivers (the
\* magnitude of every bin, and the angle at the peak bin) is drawn from
\* the values it can deliver.  fft_vals[j] holds 2 * |fft_vals[j]| / n in
\* thousandths.  Angles are in units of pi / n for a series of n bars, so
\* that 2*pi*dominant_freq*x is the integer 2 * peak_idx * x; amplitudes
\* and the values of the phase array are in thousandths.
Turn(n) == 2 * n

\* freqs > min_freq and freqs <= max_freq, with freqs[j] = j / n.
ValidMask(n) == {j \in 1 .. (n \div 2) : max_period * j > n /\ min_period * j <= n}

\* sin of an angle between 0 and pi (Bhaskara's rational form), then of
\* any angle, in thousandths.
SinHalfTurn(m, n) == (16000 * m * (n - m)) \div (5 * n * n - 4 * m * (n - m))

Sin(m, n) ==
    LET r == m % Turn(n)
    IN  IF r <= n THEN SinHalfTurn(r, n) ELSE 0 - SinHalfTurn(r - n, n)

\* amplitude * np.sin(2.0 * np.pi * dominant_freq * x + phase_angle)
PhaseValue(pk, amp, x, n) == (amp * Sin(2 * pk * x + phase_angle, n)) \div 1000

\* (2.0 * np.pi * dominant_freq * (n - 1) + phase_angle) % (2.0 * np.pi)
CurrentPhase(pk, n) == (2 * pk * (n - 1) + phase_angle) % Turn(n)

CycleAmplitudes == {0, 500, 3000}

\* The bins of np.fft.rfftfreq(n).
Bins(n) == 0 .. (n \div 2)

\* The bins that can hold power in the spectra of the runs: the DC bin,
\* the bin below the band, the ends and the middle of the band, and the
\* bin above it.
PowerBins == {0, 1, 2, 13, 25, 26}

\* A spectrum with power in at most two bins.
Spectrum(n, j1, a1, j2, a2) ==
    [j \in Bins(n) |-> IF j = j1 THEN a1 ELSE IF j = j2 THEN a2 ELSE 0]

\* fft_power = np.abs(fft_vals) ** 2; valid_power = np.where(valid_mask, fft_power, 0.0)
ValidPower(n, j) == IF j \in ValidMask(n) THEN fft_vals[j] * fft_vals[j] ELSE 0

\* np.argmax: the first index of the maximum.
ArgMax(n) ==
    CHOOSE j \in Bins(n) :
        /\ \A k \in Bins(n) : ValidPower(n, k) <= ValidPower(n, j)
        /\ \A k \in Bins(n) : ValidPower(n, k) = ValidPower(n, j) => j <= k

CycleInit ==
    /\ cy_pc = "call"
    /\ cy_entry \in {"detect_dominant_cycle", "detect_dominant_cycle_filtered"}
    /\ cy_n \in (MinCycleBars - 1) .. (MinCycleBars + CycleExtra)
    /\ \E j1 \in PowerBins, j2 \in PowerBins, a1 \in CycleAmplitudes, a2 \in CycleAmplitudes :
          /\ j1 < j2
          /\ fft_vals = Spectrum(cy_n, j1, a1, j2, a2)
    /\ phase_angle \in {0, cy_n \div 2, cy_n, cy_n + cy_n \div 2}
    /\ peak_idx = 0
    /\ amplitude = 0
    /\ phase_array = << >>
    /\ cy_current_phase = 0

CycleIdle ==
    /\ cy_pc = "idle"
    /\ cy_entry = "detect_dominant_cycle"
    /\ cy_n = 0
    /\ fft_vals = << >>
    /\ peak_idx = 0
    /\ amplitude = 0
    /\ phase_angle = 0
    /\ phase_array = << >>
    /\ cy_current_phase = 0

\* len(df) < 256: the wrappers return None.
DetectReject ==
    /\ cy_pc = "call"
    /\ cy_n < MinCycleBars
    /\ cy_pc' = "none"
    /\ UNCHANGED << cy_entry, cy_n, fft_vals, peak_idx, amplitude, phase_angle, phase_array,
                    cy_current_phase, simVars, sweepVars, sigVars, huVars, rbVars, gbVars >>

\* _analyze_cycle on the raw or the filtered series.
AnalyzeCycle ==
    /\ cy_pc = "call"
    /\ cy_n >= MinCycleBars
    /\ IF ValidMask(cy_n) = {}
       THEN /\ peak_idx' = peak_idx
            /\ amplitude' = 0
            /\ phase_array' = [x \in 1 .. cy_n |-> 0]
            /\ cy_current_phase' = 0
       ELSE \E pk \in {ArgMax(cy_n)} :
            /\ peak_idx' = pk
            /\ amplitude' = fft_vals[pk]
            /\ phase_array' = [x \in 1 .. cy_n |-> PhaseValue(pk, fft_vals[pk], x - 1, cy_n)]
            /\ cy_current_phase' = CurrentPhase(pk, cy_n)
    /\ cy_pc' = "done"
    /\ UNCHANGED << cy_entry, cy_n, fft_vals, phase_angle,
                    simVars, sweepVars, sigVars, huVars, rbVars, gbVars >>

\* ======================================================================
\* run_backtest (vbt_runner.py)
\* ======================================================================
\* The steps of the try block, and the one of them (if any) that raises.
\* The accounting library is outside the model: it reports a number of
\* trades no larger than the number of entries it is given.
BacktestFaults == {"none", "build", "size", "account", "stats"}

BacktestInit ==
    /\ n_time = NTime
    /\ phase_len \in {-1, n_time}
    /\ n_assets = 1
    /\ max_concurrent_trades = 1
    /\ macro_filter_type = 2
    /\ hurst_value \in [Assets -> {30, 70}]
    /\ pc = "idle"
    /\ i = 0
    /\ a = 0
    /\ in_position_long = [b \in Assets |-> FALSE]
    /\ in_position_short = [b \in Assets |-> FALSE]
    /\ entry_price = [b \in Assets |-> 0]
    /\ highest_price = [b \in Assets |-> 0]
    /\ lowest_price = [b \in Assets |-> 0]
    /\ stop_loss = [b \in Assets |-> 0]
    /\ is_breakeven = [b \in Assets |-> FALSE]
    /\ open_trades_count = 0
    /\ scores = [b \in Assets |-> ScoreFill]
    /\ dirs = [b \in Assets |-> 0]
    /\ sorted_indices = << >>
    /\ long_entries = ZeroMatrix(n_time)
    /\ long_exits = ZeroMatrix(n_time)
    /\ short_entries = ZeroMatrix(n_time)
    /\ short_exits = ZeroMatrix(n_time)
    /\ phase_row = [b \in Assets |-> << >>]
    /\ direction_row = [b \in Assets |-> << >>]
    /\ refused = [b \in Assets |-> 0]
    /\ phase_prev = [b \in Assets |-> << >>]
    /\ oob_read = FALSE
    /\ rb_pc = "call"
    /\ rb_fault \in BacktestFaults
    /\ rb_trades = 0
    /\ rb_result = << >>

BacktestIdle ==
    /\ rb_pc = "idle"
    /\ rb_fault = "none"
    /\ rb_trades = 0
    /\ rb_result = << >>

\* Where control goes when a step of the try block raises.
HandlerStatsOutside(step) == IF step = "stats" THEN "raised" ELSE "except"

Handler(step) == "except"

EntryCount ==
    Cardinality({c \in (DOMAIN long_entries) \X Assets :
                    long_entries[c[1]][c[2]] \/ short_entries[c[1]][c[2]]})

\* The conversions of the inputs and the call of build_entries_exits.
BacktestBuild ==
    /\ rb_pc = "call"
    /\ IF rb_fault = "build"
       THEN rb_pc' = Handler("build") /\ pc' = pc
       ELSE rb_pc' = "build" /\ pc' = "build"
    /\ UNCHANGED << rb_fault, rb_trades, rb_result, sweepVars, sigVars, huVars, cyVars, gbVars,
                    n_time, n_assets, phase_len, max_concurrent_trades, macro_filter_type,
                    i, a, in_position_long, in_position_short, entry_price, highest_price,
                    lowest_price, stop_loss, is_breakeven, open_trades_count,
                    scores, dirs, sorted_indices,
                    long_entries, long_exits, short_entries, short_exits,
                    phase_row, phase_prev, direction_row, refused, hurst_value, oob_read >>

\* The position sizes, once the four matrices are back.
BacktestSize ==
    /\ rb_pc = "build"
    /\ pc = "done"
    /\ rb_pc' = IF rb_fault = "size" THEN Handler("size") ELSE "account"
    /\ UNCHANGED << rb_fault, rb_trades, rb_result,
                    simVars, sweepVars, sigVars, huVars, cyVars, gbVars >>

\* vbt.Portfolio.from_signals
BacktestAccount ==
    /\ rb_pc = "account"
    /\ IF rb_fault = "account"
       THEN rb_pc' = Handler("account") /\ rb_trades' = rb_trades
       ELSE rb_pc' = "stats" /\ rb_trades' \in 0 .. EntryCount
    /\ UNCHANGED << rb_fault, rb_result, simVars, sweepVars, sigVars, huVars, cyVars, gbVars >>

\* pf.stats() and the returned dict.
BacktestStats ==
    /\ rb_pc = "stats"
    /\ IF rb_fault = "stats"
       THEN rb_pc' = Handler("stats") /\ rb_result' = rb_result
       ELSE rb_pc' = "returned" /\ rb_result' = << [total_trades |-> rb_trades] >>
    /\ UNCHANGED << rb_fault, rb_trades, simVars, sweepVars, sigVars, huVars, cyVars, gbVars >>

\* except Exception: return None
BacktestExcept ==
    /\ rb_pc = "except"
    /\ rb_result' = << >>
    /\ rb_pc' = "returned"
    /\ UNCHANGED << rb_fault, rb_trades, simVars, sweepVars, sigVars, huVars, cyVars, gbVars >>

\* ======================================================================
\* generate_signals_batch (src/signals/filters.py)
\* ======================================================================

Symbols == {"SYM1", "SYM2"}

Timeframes == {"1h", "1d"}

\* The keys a data_dict can hold.
Pairs == Symbols \X Timeframes

\* What one generate_signal task gives back through its future: a signal
\* dict, None (empty frame, or a failure caught inside the task), or an
\* exception raised before the task's own try block.
TaskOutcomes == {"record", "none", "raise"}

\* data_dict in insertion order: distinct keys.
DataDicts ==
    UNION {{d \in [1 .. n -> Pairs] : \A j, k \in 1 .. n : j # k => d[j] # d[k]} :
              n \in 0 .. MaxPairs}

KeysOf(d) == {d[k] : k \in DOMAIN d}

BatchInit ==
    /\ gb_pc = "call"
    /\ data_dict \in DataDicts
    /\ max_workers \in 1 .. MaxWorkers
    /\ outcome \in [KeysOf(data_dict) -> TaskOutcomes]
    /\ futures = << >>
    /\ results = << >>

BatchIdle ==
    /\ gb_pc = "idle"
    /\ data_dict = << >>
    /\ max_workers = 1
    /\ outcome = << >>
    /\ futures = << >>
    /\ results = << >>

\* if not data_dict: return results
BatchEmpty ==
    /\ gb_pc = "call"
    /\ data_dict = << >>
    /\ gb_pc' = "returned"
    /\ UNCHANGED << data_dict, max_workers, outcome, futures, results,
                    simVars, sweepVars, sigVars, huVars, cyVars, rbVars >>

\* with ProcessPoolExecutor(max_workers=max_workers) as executor
BatchOpen ==
    /\ gb_pc = "call"
    /\ data_dict # << >>
    /\ gb_pc' = "submit"
    /\ UNCHANGED << data_dict, max_workers, outcome, futures, results,
                    simVars, sweepVars, sigVars, huVars, cyVars, rbVars >>

\* The futures dict, one entry per submitted key, with the state of its
\* task: "pending", "running", "finished", and "yielded" once as_completed
\* has handed it to the loop.
Submitted == DOMAIN futures

NextKey == Cardinality(Submitted) + 1

\* executor.submit(generate_signal, ...); futures[future] = (symbol, timeframe)
BatchSubmit ==
    /\ gb_pc = "submit"
    /\ NextKey <= Len(data_dict)
    /\ futures' = [p \in Submitted \cup {data_dict[NextKey]} |->
                      IF p \in Submitted THEN futures[p] ELSE "pending"]
    /\ UNCHANGED << gb_pc, data_dict, max_workers, outcome, results,
                    simVars, sweepVars, sigVars, huVars, cyVars, rbVars >>

\* The end of the submitting loop.
BatchSubmitted ==
    /\ gb_pc = "submit"
    /\ NextKey > Len(data_dict)
    /\ gb_pc' = "collect"
    /\ UNCHANGED << data_dict, max_workers, outcome, futures, results,
                    simVars, sweepVars, sigVars, huVars, cyVars, rbVars >>

Running == {p \in Submitted : futures[p] = "running"}

KeyIndex(p) == CHOOSE k \in DOMAIN data_dict : data_dict[k] = p

\* The pool hands its queue to the workers first in, first out.
FirstPending(p) ==
    /\ p \in Submitted
    /\ futures[p] = "pending"
    /\ \A q \in Submitted : futures[q] = "pending" => KeyIndex(p) <= KeyIndex(q)

\* A free worker process takes the next task.
WorkerStart ==
    /\ gb_pc \in {"submit", "collect"}
    /\ Cardinality(Running) < max_workers
    /\ \E p \in Submitted :
          /\ FirstPending(p)
          /\ futures' = [futures EXCEPT ![p] = "running"]
    /\ UNCHANGED << gb_pc, data_dict, max_workers, outcome, results,
                    simVars, sweepVars, sigVars, huVars, cyVars, rbVars >>

\* A worker completes its task, in any order among the running ones.
WorkerFinish ==
    /\ gb_pc \in {"submit", "collect"}
    /\ \E p \in Running : futures' = [futures EXCEPT ![p] = "finished"]
    /\ UNCHANGED << gb_pc, data_dict, max_workers, outcome, results,
                    simVars, sweepVars, sigVars, huVars, cyVars, rbVars >>

\* The signal dict of one key.
SignalRecord(p) == [symbol |-> p[1], timeframe |-> p[2]]

\* Where the loop goes when future.result() raises.
BatchHandlerPropagates == "raised"

BatchHandler == "collect"

\* for future in as_completed(futures): result = future.result();
\* if result is not None: results.append(result)
CollectRecord ==
    /\ gb_pc = "collect"
    /\ \E p \in Submitted :
          /\ futures[p] = "finished"
          /\ outcome[p] = "record"
          /\ futures' = [futures EXCEPT ![p] = "yielded"]
          /\ results' = Append(results, SignalRecord(p))
    /\ UNCHANGED << gb_pc, data_dict, max_workers, outcome,
                    simVars, sweepVars, sigVars, huVars, cyVars, rbVars >>

\* result is None: nothing is appended.
CollectNone ==
    /\ gb_pc = "collect"
    /\ \E p \in Submitted :
          /\ futures[p] = "finished"
          /\ outcome[p] = "none"
          /\ futures' = [futures EXCEPT ![p] = "yielded"]
    /\ UNCHANGED << gb_pc, data_dict, max_workers, outcome, results,
                    simVars, sweepVars, sigVars, huVars, cyVars, rbVars >>

\* except Exception as e: logger.error(...)
CollectRaise ==
    /\ gb_pc = "collect"
    /\ \E p \in Submitted :
          /\ futures[p] = "finished"
          /\ outcome[p] = "raise"
          /\ futures' = [futures EXCEPT ![p] = "yielded"]
    /\ gb_pc' = BatchHandler
    /\ UNCHANGED << data_dict, max_workers, outcome, results,
                    simVars, sweepVars, sigVars, huVars, cyVars, rbVars >>

\* as_completed is exhausted; the executor is shut down; return results
BatchReturn ==
    /\ gb_pc = "collect"
    /\ \A p \in Submitted : futures[p] = "yielded"
    /\ gb_pc' = "returned"
    /\ UNCHANGED << data_dict, max_workers, outcome, futures, results,
                    simVars, sweepVars, sigVars, huVars, cyVars, rbVars >>

\* ======================================================================
\* Specifications
\* ======================================================================
Init == SimInit /\ SweepIdle /\ SignalIdle /\ HurstIdle /\ CycleIdle /\ BacktestIdle /\ BatchIdle

Next ==
    \/ Build
    \/ ExitLong
    \/ ExitShort
    \/ ExitFlat
    \/ EntryGate
    \/ ScanSkip
    \/ ScanVeto
    \/ ScanFiltered
    \/ ScanEdge
    \/ SortScores
    \/ AdmitLong
    \/ AdmitShort
    \/ AdmitEnd
    \/ NextBar

Spec == Init /\ [][Next]_vars

InitSweep == SimIdle /\ SweepInit /\ SignalIdle /\ HurstIdle /\ CycleIdle /\ BacktestIdle /\ BatchIdle

NextSweep ==
    \/ SweepStart
    \/ SweepRun
    \/ SweepAppend
    \/ SweepRaise
    \/ SweepReturn

SpecSweep == InitSweep /\ [][NextSweep]_vars

InitSignal == SimIdle /\ SweepIdle /\ SignalInit /\ HurstIdle /\ CycleIdle /\ BacktestIdle /\ BatchIdle

NextSignal == DetermineSignal

SpecSignal == InitSignal /\ [][NextSignal]_vars

InitHurst == SimIdle /\ SweepIdle /\ SignalIdle /\ HurstInit /\ CycleIdle /\ BacktestIdle /\ BatchIdle

NextHurst == CalculateHurst

SpecHurst == InitHurst /\ [][NextHurst]_vars

InitCycle == SimIdle /\ SweepIdle /\ SignalIdle /\ HurstIdle /\ CycleInit /\ BacktestIdle /\ BatchIdle

NextCycle ==
    \/ DetectReject
    \/ AnalyzeCycle

SpecCycle == InitCycle /\ [][NextCycle]_vars

InitBacktest == BacktestInit /\ SweepIdle /\ SignalIdle /\ HurstIdle /\ CycleIdle /\ BatchIdle

NextBacktest ==
    \/ BacktestBuild
    \/ Next
    \/ BacktestSize
    \/ BacktestAccount
    \/ BacktestStats
    \/ BacktestExcept

SpecBacktest == InitBacktest /\ [][NextBacktest]_vars

InitBatch ==
    SimIdle /\ SweepIdle /\ SignalIdle /\ HurstIdle /\ CycleIdle /\ BacktestIdle /\ BatchInit

NextBatch ==
    \/ BatchEmpty
    \/ BatchOpen
    \/ BatchSubmit
    \/ BatchSubmitted
    \/ WorkerStart
    \/ WorkerFinish
    \/ CollectRecord
    \/ CollectNone
    \/ CollectRaise
    \/ BatchReturn

SpecBatch == InitBatch /\ [][NextBatch]_vars

\* ======================================================================
\* Properties of simulate_portfolio_nb / build_entries_exits
\* ======================================================================
AfterExitPhase == pc = "exits" /\ a = n_assets

AfterEntryPhase == pc = "next"

BarSet == 0 .. (n_time - 1)

OpenNow == {b \in Assets : in_position_long[b] \/ in_position_short[b]}

ExitsAt(t) == {b \in Assets : long_exits[t][b] \/ short_exits[t][b]}

EntriesAt(t) == {b \in Assets : long_entries[t][b] \/ short_entries[t][b]}

Candidates == {b \in Assets : scores[b] > ScoreCut}

Min(x, y) == IF x <= y THEN x ELSE y

\* Asset b holds a long (short) position at the start of bar t: a long
\* (short) entry lies before t with no long (short) exit after it.
OpenLongBefore(t, b) ==
    \E t0 \in 0 .. (t - 1) :
        /\ long_entries[t0][b]
        /\ \A t1 \in (t0 + 1) .. (t - 1) : ~long_exits[t1][b]

OpenShortBefore(t, b) ==
    \E t0 \in 0 .. (t - 1) :
        /\ short_entries[t0][b]
        /\ \A t1 \in (t0 + 1) .. (t - 1) : ~short_exits[t1][b]

\* C1: at every point of the bar loop, and so after the exit phase and after
\* the entry phase of every bar, 0 <= open_trades_count <= max_concurrent_trades.
C1_BudgetInvariant ==
    /\ 0 <= open_trades_count
    /\ open_trades_count <= max_concurrent_trades

\* The cap binds: the entry phase of a bar ends with the budget full and an
\* eligible candidate left out.
C1_Witness ==
    /\ AfterEntryPhase
    /\ max_concurrent_trades >= 1
    /\ open_trades_count = max_concurrent_trades
    /\ \E b \in Candidates : b \notin OpenNow

\* C2: a long exit is recorded at bar t only for an asset that held a long
\* position at the start of bar t, a short exit only for an asset that held
\* a short position; no exit is recorded for a flat asset.
C2_ExitOnlyWhenOpen ==
    \A t \in BarSet : \A b \in Assets :
        /\ long_exits[t][b] => OpenLongBefore(t, b)
        /\ short_exits[t][b] => OpenShortBefore(t, b)

C2_Witness ==
    /\ pc = "done"
    /\ \E t \in BarSet : \E b \in Assets : long_exits[t][b]
    /\ \E t \in BarSet : \E b \in Assets : short_exits[t][b]

\* C3: between two successive entries of the same asset and direction there
\* is an exit of that direction, at a bar strictly between them.
C3_NoReentryWithoutExit ==
    \A b \in Assets : \A t1 \in BarSet : \A t2 \in BarSet :
        /\ (/\ t1 < t2
            /\ long_entries[t1][b]
            /\ long_entries[t2][b]
            /\ \A t \in (t1 + 1) .. (t2 - 1) : ~long_entries[t][b])
           => \E k \in (t1 + 1) .. (t2 - 1) : long_exits[k][b]
        /\ (/\ t1 < t2
            /\ short_entries[t1][b]
            /\ short_entries[t2][b]
            /\ \A t \in (t1 + 1) .. (t2 - 1) : ~short_entries[t][b])
           => \E k \in (t1 + 1) .. (t2 - 1) : short_exits[k][b]

\* An asset entered twice on the same side, long for one asset and short
\* for one asset.
C3_Witness ==
    /\ \E b \in Assets : \E t1 \in BarSet : \E t2 \in BarSet :
        t1 < t2 /\ long_entries[t1][b] /\ long_entries[t2][b]
    /\ \E b \in Assets : \E t1 \in BarSet : \E t2 \in BarSet :
        t1 < t2 /\ short_entries[t1][b] /\ short_entries[t2][b]

\* C4: an asset is never long and short at once, no (bar, asset) cell holds
\* an exit together with an entry, and an entry of either direction is
\* recorded at bar t only for an asset that held no position at the start
\* of bar t: every change of side passes through FLAT.
C4_ThroughFlat ==
    /\ \A b \in Assets : ~(in_position_long[b] /\ in_position_short[b])
    /\ \A t \in BarSet : EntriesAt(t) \cap ExitsAt(t) = {}
    /\ \A t \in BarSet : \A b \in EntriesAt(t) :
        /\ ~OpenLongBefore(t, b)
        /\ ~OpenShortBefore(t, b)
        /\ ~(long_entries[t][b] /\ short_entries[t][b])

\* An asset goes LONG, FLAT, SHORT.
C4_Witness ==
    \E b \in Assets : \E t0 \in BarSet : \E t1 \in BarSet : \E t2 \in BarSet :
        /\ t0 < t1
        /\ t1 < t2
        /\ long_entries[t0][b]
        /\ long_exits[t1][b]
        /\ short_entries[t2][b]

\* C5: when the budget is full at the start of bar i and k >= 1 positions
\* exit at bar i, the entry gate of bar i finds the budget below the cap,
\* and the entry phase of bar i admits min(k, number of candidates)
\* candidates, none of them an asset that exited at bar i.
OpenAtStart == Cardinality(OpenNow) - Cardinality(EntriesAt(i)) + Cardinality(ExitsAt(i))

C5_FreedSlotSameBar ==
    /\ (/\ AfterExitPhase
        /\ OpenAtStart = max_concurrent_trades
        /\ Cardinality(ExitsAt(i)) >= 1)
       => open_trades_count < max_concurrent_trades
    /\ (/\ AfterEntryPhase
        /\ OpenAtStart = max_concurrent_trades
        /\ Cardinality(ExitsAt(i)) >= 1)
       => /\ Cardinality(EntriesAt(i)) = Min(Cardinality(ExitsAt(i)), Cardinality(Candidates))
          /\ EntriesAt(i) \cap ExitsAt(i) = {}

\* A full budget, an exit and an admission at one bar.
C5_Witness ==
    /\ AfterEntryPhase
    /\ OpenAtStart = max_concurrent_trades
    /\ Cardinality(ExitsAt(i)) >= 1
    /\ Cardinality(EntriesAt(i)) >= 1

\* C6 (as stated): an asset whose hurst value lies below hurst_threshold at
\* every bar gets no long and no short entry, whatever the macro filter.
C6_NoEntryBelowThreshold ==
    \A b \in Assets :
        hurst_value[b] < hurst_threshold
            => \A t \in BarSet : ~long_entries[t][b] /\ ~short_entries[t][b]

\* C6 (amended): the same under the hurst filter and under both filters;
\* the chop filter does not consult the hurst value.
C6_NoEntryBelowThresholdHurstFilter ==
    \A b \in Assets :
        (macro_filter_type # 0 /\ hurst_value[b] < hurst_threshold)
            => \A t \in BarSet : ~long_entries[t][b] /\ ~short_entries[t][b]

\* A finished run under a hurst-consulting filter in which an asset below
\* the threshold stayed out while another asset was entered.
C6_Witness ==
    /\ pc = "done"
    /\ macro_filter_type # 0
    /\ \E b \in Assets : \E c \in Assets :
        /\ hurst_value[b] < hurst_threshold
        /\ \E t \in BarSet : long_entries[t][c] \/ short_entries[t][c]

\* C8: a call with no phase array, with a phase array of another length than
\* close, or with no bars returns four all-False matrices and reads no
\* phase value past the end of the phase array.
C8_MalformedGivesAllFalse ==
    (pc = "done" /\ (phase_len # n_time \/ n_time = 0))
        => /\ ~AnyTrue(long_entries)
           /\ ~AnyTrue(long_exits)
           /\ ~AnyTrue(short_entries)
           /\ ~AnyTrue(short_exits)
           /\ ~oob_read

\* ======================================================================
\* Properties of run_parameter_sweep
\* ======================================================================
RowTuple(r) ==
    << r.hurst_threshold, r.phase_long, r.phase_short, r.trailing_multiplier,
       r.macro_filter_type >>

\* C7: for grids of sizes (a, b, c, d, e) the table returned by
\* run_parameter_sweep has exactly a*b*c*d*e rows, and every row carries a
\* distinct (hurst_threshold, phase_long, phase_short, trailing_multiplier,
\* macro_filter_type) tuple.
C7_ComboCount ==
    sw_pc = "done" =>
        /\ Len(sw_results) = total_combos
        /\ \A x, y \in 1 .. Len(sw_results) :
              x # y => RowTuple(sw_results[x]) # RowTuple(sw_results[y])

\* ======================================================================
\* Properties of _determine_signal
\* ======================================================================
InLongZone(p) == Abs(p - (3 * TwoPi) \div 4) < TwoPi \div 8

InShortZone(p) == Abs(p - TwoPi \div 4) < TwoPi \div 8

ShortTestFirst(cp, hv, th) ==
    IF hv < th THEN "neutral"
    ELSE IF InShortZone(cp % TwoPi) THEN "short"
    ELSE IF InLongZone(cp % TwoPi) THEN "long"
    ELSE "neutral"

\* C9: _determine_signal(phase, hurst, threshold) is neutral if
\* hurst < threshold whatever the phase; otherwise, with p = phase mod 2pi,
\* it is long iff |p - 3pi/2| < pi/4, short iff |p - pi/2| < pi/4 and
\* neutral otherwise; the two zones are disjoint, so testing short before
\* long gives the same result.
C9_MatchesReference ==
    sig_pc = "done" =>
        LET p == current_phase % TwoPi
        IN  /\ sig_hurst < sig_threshold => sig_out = "neutral"
            /\ sig_hurst >= sig_threshold =>
                  /\ sig_out = "long" <=> InLongZone(p)
                  /\ sig_out = "short" <=> InShortZone(p)
                  /\ sig_out = "neutral" <=> (~InLongZone(p) /\ ~InShortZone(p))
            /\ \A q \in 0 .. (TwoPi - 1) : ~(InLongZone(q) /\ InShortZone(q))
            /\ sig_out = ShortTestFirst(current_phase, sig_hurst, sig_threshold)

C9_Witness ==
    /\ sig_pc = "done"
    /\ sig_hurst = sig_threshold
    /\ current_phase < 0
    /\ sig_out = "long"

\* ======================================================================
\* Properties of calculate_hurst / _hurst_rs
\* ======================================================================
IsConstantSeries(prices) ==
    \A j, k \in 1 .. Len(prices) : prices[j] = prices[k]

\* C10: the estimator returns exactly the neutral default 0.5 for a None
\* input, for a series shorter than 20 bars, for a missing column, and for
\* a constant series of any length.
C10_NeutralDefault ==
    (/\ hu_pc = "done"
     /\ \/ hu_df = "none"
        \/ hu_df = "missing_column"
        \/ Len(hu_prices) < 20
        \/ IsConstantSeries(hu_prices))
    => hu_out = HurstDefault

\* C11: every return path of _hurst_rs yields a value between 0.0 and 1.0:
\* either the neutral 0.5, or the regression slope cut to [0, 1].
C11_HurstInRange ==
    hu_pc = "done" =>
        /\ 0 <= hu_out /\ hu_out <= 1000
        /\ \/ hu_out = HurstDefault
           \/ /\ hu_df = "frame"
              /\ Len(hu_prices) >= 20
              /\ Regression(hu_prices).count >= 2
              /\ Regression(hu_prices).den # 0
              /\ LET slope == Slope(Regression(hu_prices).num, Regression(hu_prices).den)
                 IN  hu_out = (IF slope < 0 THEN 0 ELSE IF slope > 1000 THEN 1000 ELSE slope)

C11_Witness ==
    /\ hu_pc = "done"
    /\ hu_df = "frame"
    /\ Len(hu_prices) >= 20
    /\ ~HasNaN(hu_prices)
    /\ ~IsConstantSeries(hu_prices)
    /\ Regression(hu_prices).count >= 2
    /\ Slope(Regression(hu_prices).num, Regression(hu_prices).den) > 1000
    /\ hu_out = 1000

\* rs_sum / valid_count of one size, in sixteenths; 0 when no sub-series
\* of the size has a non-zero deviation.
AveragedRs(prices, si) ==
    The({IF acc[1] > 0 /\ acc[2] # NaN THEN acc[2] \div acc[1] ELSE 0 :
            acc \in {RsAccumulate(prices, SizeAt(si), Len(prices) \div SizeAt(si))}})

\* C23: a sub-series size takes part in the regression iff its averaged
\* R/S is strictly positive, and the result is 0.5 when fewer than 2 sizes
\* take part.
C23_PositiveRsTakesPart ==
    (/\ hu_pc = "done"
     /\ hu_df = "frame"
     /\ Len(hu_prices) >= 20
     /\ ~HasNaN(hu_prices))
    => /\ \A si \in 0 .. (FloorLog2(Len(hu_prices)) - 2) :
             si \in Regression(hu_prices).used <=> AveragedRs(hu_prices, si) > 0
       /\ Regression(hu_prices).count < 2 => hu_out = HurstDefault

\* ======================================================================
\* Properties of the cycle detector
\* ======================================================================
\* C12: for every input series of at least 256 bars, every value of the
\* phase_array returned by the cycle detector lies in [0, 2*pi)
\* (2*pi is 6283 thousandths).
C12_PhaseArrayInRange ==
    cy_pc = "done" =>
        \A x \in 1 .. Len(phase_array) : 0 <= phase_array[x] /\ phase_array[x] < 6283

\* C24: whenever at least one frequency bin lies in the band, the bin
\* selected as dominant lies in the band, is not the zero-frequency bin,
\* and has the maximum power among the in-band bins, also when the in-band
\* power is zero everywhere.
C24_DominantInBand ==
    (cy_pc = "done" /\ ValidMask(cy_n) # {}) =>
        /\ peak_idx \in ValidMask(cy_n)
        /\ peak_idx # 0
        /\ \A k \in ValidMask(cy_n) : ValidPower(cy_n, k) <= ValidPower(cy_n, peak_idx)

\* ======================================================================
\* Further properties of run_parameter_sweep
\* ======================================================================
CallTuple(c) ==
    << c.hurst_threshold, c.phase_long_center, c.phase_short_center,
       c.trailing_multiplier, c.macro_filter_type >>

FailedCalls == {k \in 1 .. Len(sw_calls) : sw_calls[k].result = << >>}

\* C13: the sweep does not abort because a combination fails: every
\* combination whose run_backtest returned None is recorded as a row with
\* its own parameter values and all metrics zero, and every combination of
\* the grid is still evaluated.
C13_FailureIsZeroRow ==
    /\ (sw_pc = "raised" => FailedCalls = {})
    /\ sw_pc = "done" =>
          /\ Len(sw_calls) = total_combos
          /\ \A k \in FailedCalls :
                \E x \in 1 .. Len(sw_results) :
                    /\ RowTuple(sw_results[x]) = CallTuple(sw_calls[k])
                    /\ sw_results[x].total_return = 0
                    /\ sw_results[x].total_trades = 0

\* The combinations of the Cartesian product of the five grids, and the
\* invocations of run_backtest made with the parameters of one of them.
Combinations ==
    {<< hurst_range[x1], phase_long_range[x2], phase_short_range[x3],
        trailing_multiplier_range[x4], macro_filter_type_range[x5] >> :
        x1 \in DOMAIN hurst_range, x2 \in DOMAIN phase_long_range,
        x3 \in DOMAIN phase_short_range, x4 \in DOMAIN trailing_multiplier_range,
        x5 \in DOMAIN macro_filter_type_range}

CallsOf(c) == {k \in 1 .. Len(sw_calls) : CallTuple(sw_calls[k]) = c}

\* C26: for every combination of the five grids run_backtest is invoked
\* exactly once with the combination's parameters and with
\* ltf_threshold = 50 - 118 * (ht - 0.5), and the metrics of that
\* invocation are recorded in a row carrying the combination's parameters.
C26_OneCallOneRow ==
    sw_pc = "done" =>
        \A c \in Combinations :
            /\ Cardinality(CallsOf(c)) = 1
            /\ \A k \in CallsOf(c) :
                  /\ sw_calls[k].ltf_threshold = LtfChopThreshold(c[1])
                  /\ \E x \in 1 .. Len(sw_results) :
                        sw_results[x] =
                            SweepRow(c[1], c[2], c[3], c[4], c[5], sw_calls[k].result)

\* ======================================================================
\* Properties of run_backtest
\* ======================================================================
\* C14: run_backtest never raises: if a step raises it returns None; if
\* it runs and no entry fires it returns a result whose total_trades is 0;
\* so None is returned exactly when the run failed.
C14_NullOnlyOnFailure ==
    /\ rb_pc # "raised"
    /\ rb_pc = "returned" =>
          /\ rb_fault # "none" => rb_result = << >>
          /\ rb_fault = "none" => rb_result # << >>
          /\ (rb_fault = "none" /\ EntryCount = 0) => rb_result[1].total_trades = 0

C14_Witness ==
    /\ rb_pc = "returned"
    /\ rb_fault = "none"
    /\ pc = "done"
    /\ phase_len = n_time
    /\ EntryCount = 0
    /\ rb_result # << >>
    /\ rb_result[1].total_trades = 0


\* ======================================================================
\* Properties of generate_signals_batch
\* ======================================================================

RecordKeys == {p \in KeysOf(data_dict) : outcome[p] = "record"}

CountOf(rec) == Cardinality({k \in DOMAIN results : results[k] = rec})

\* C15: the batch never ends in an exception, and the list it returns holds
\* exactly one record for every key whose task gave a record and none for
\* the keys whose task gave None or raised, whatever the order in which the
\* workers completed.
C15_OneRecordPerSuccess ==
    /\ gb_pc # "raised"
    /\ gb_pc = "returned" =>
          /\ \A p \in KeysOf(data_dict) :
                CountOf(SignalRecord(p)) = IF p \in RecordKeys THEN 1 ELSE 0
          /\ Len(results) = Cardinality(RecordKeys)

\* A returned batch with a raising task and a None task submitted before two
\* tasks that gave records, the records collected against submission order.
C15_Witness ==
    /\ gb_pc = "returned"
    /\ Len(data_dict) = 4
    /\ outcome[data_dict[1]] = "raise"
    /\ outcome[data_dict[2]] = "none"
    /\ outcome[data_dict[3]] = "record"
    /\ outcome[data_dict[4]] = "record"
    /\ results = << SignalRecord(data_dict[4]), SignalRecord(data_dict[3]) >>


\* ======================================================================
\* Further properties of simulate_portfolio_nb
\* ======================================================================

\* The assets whose edge test has run at the current bar with both of its
\* phases known: the asset was flat, passed the veto and the macro filter.
EdgeTested ==
    {b \in Assets : direction_row[b] # << >> /\ phase_row[b] # << >> /\ phase_prev[b] # << >>}

RisingEdge(b, center) ==
    InZone(phase_row[b][1], center) /\ ~InZone(phase_prev[b][1], center)

\* C16: a flat asset that passes the veto and the macro filter is a long
\* candidate iff its HTF direction is >= 0 and its phase has a rising edge
\* into the long zone, and a short candidate iff its HTF direction is <= 0
\* and its phase has a rising edge into the short zone; a direction of
\* exactly 0 allows either side.
C16_DirectionGate ==
    \A b \in EdgeTested :
        /\ dirs[b] = 1 <=>
              (direction_row[b][1] >= 0 /\ RisingEdge(b, phase_long_center))
        /\ dirs[b] = -1 <=>
              (direction_row[b][1] <= 0 /\ RisingEdge(b, phase_short_center))


CurrentBar == pc \in {"exits", "scan", "admit", "next"}

\* C17: an entry is emitted for an asset at a bar only if the phase of the
\* bar is inside the zone of its side and the phase of the bar before is
\* not; an asset refused at its edge bar, its phase still in the zone at a
\* later bar, gets no entry at that bar.
C17_EdgeTriggered ==
    CurrentBar =>
        \A b \in Assets :
            /\ long_entries[i][b] =>
                  /\ b \in EdgeTested
                  /\ RisingEdge(b, phase_long_center)
            /\ short_entries[i][b] =>
                  /\ b \in EdgeTested
                  /\ RisingEdge(b, phase_short_center)
            /\ (/\ refused[b] = 1
                /\ phase_row[b] # << >>
                /\ InZone(phase_row[b][1], phase_long_center)) => ~long_entries[i][b]
            /\ (/\ refused[b] = -1
                /\ phase_row[b] # << >>
                /\ InZone(phase_row[b][1], phase_short_center)) => ~short_entries[i][b]

\* The bar after the edge bar of a refused long candidate: its phase is
\* still in the long zone, the asset passed the veto and the filter, a slot
\* stayed free to the end of the entry phase, and no entry was emitted.
C17_Witness ==
    /\ pc = "next"
    /\ open_trades_count < max_concurrent_trades
    /\ \E b \in Assets :
          /\ refused[b] = 1
          /\ direction_row[b] # << >>
          /\ direction_row[b][1] >= 0
          /\ InZone(phase_row[b][1], phase_long_center)
          /\ ~long_entries[i][b]
          /\ ~in_position_long[b]


\* The eligible candidates of the current bar, and the slots that were free
\* when its exit phase ended.
Eligible == {b \in Assets : dirs[b] # 0}

FreeSlots == max_concurrent_trades - (open_trades_count - Cardinality(EntriesAt(i)))

\* C18: when the entry phase of a bar ends, the admitted assets are
\* eligible candidates, on the side of their candidacy, exactly
\* min(c, s) of them for c candidates and s free slots, and no candidate
\* left out has a score strictly greater than that of an admitted one.
C18_TopByScore ==
    AfterEntryPhase =>
        /\ EntriesAt(i) \subseteq Eligible
        /\ \A b \in EntriesAt(i) : long_entries[i][b] <=> dirs[b] = 1
        /\ Cardinality(EntriesAt(i)) = Min(Cardinality(Eligible), FreeSlots)
        /\ \A b \in Eligible \ EntriesAt(i) :
              \A d \in EntriesAt(i) : ~(scores[b] > scores[d])

\* Two candidates with different scores and a single free slot: the one
\* with the greater score is admitted, the other is left out.
C18_Witness ==
    /\ AfterEntryPhase
    /\ FreeSlots = 1
    /\ Cardinality(Eligible) = 2
    /\ \E b \in Eligible, d \in Eligible :
          /\ d \in EntriesAt(i)
          /\ b \notin EntriesAt(i)
          /\ scores[d] > scores[b]


\* The assets an order of the candidates admits: its first min(c, s)
\* entries for c candidates and s free slots.
AdmittedBy(f) == {f[k] : k \in 1 .. Min(Cardinality(Eligible), FreeSlots)}

MaxAtr == CHOOSE x \in AtrVals : \A y \in AtrVals : y <= x

HeldTwoBars(b) ==
    /\ i >= 3
    /\ i < n_time
    /\ long_entries[i - 2][b]
    /\ in_position_long[b]

\* C19: in every step taken while a LONG position of an asset is open its
\* stop_loss and its highest_price do not decrease, and while a SHORT
\* position is open its stop_loss and its lowest_price do not increase,
\* whatever the ATR of the bar.
C19_StopsMonotone ==
    [][\A b \in Assets :
          /\ in_position_long[b] =>
                /\ stop_loss'[b] >= stop_loss[b]
                /\ highest_price'[b] >= highest_price[b]
          /\ in_position_short[b] =>
                /\ stop_loss'[b] <= stop_loss[b]
                /\ lowest_price'[b] <= lowest_price[b]]_vars

\* A long position that has been through two exit phases, its stop raised
\* above its entry price and standing above the trailing candidate that the
\* largest ATR gives.
C19_Witness ==
    /\ AfterExitPhase
    /\ \E b \in Assets :
          /\ HeldTwoBars(b)
          /\ stop_loss[b] > entry_price[b]
          /\ stop_loss[b] > highest_price[b] - (MaxAtr * trailing_multiplier)


Max(x, y) == IF x >= y THEN x ELSE y

\* The step of the exit phase that handles the open long (short) position
\* of asset a, not yet in breakeven mode, for a bar whose high (low)
\* reaches the breakeven level.
LongReach(hi, cl, at) ==
    /\ pc = "exits"
    /\ a < n_assets
    /\ IsLong(a)
    /\ ~is_breakeven[a]
    /\ LongBar(hi, cl, at)
    /\ a' = a + 1
    /\ hi >= entry_price[a] + (at * breakeven_threshold)

ShortReach(lo, cl, at) ==
    /\ pc = "exits"
    /\ a < n_assets
    /\ IsShort(a)
    /\ ~is_breakeven[a]
    /\ ShortBar(lo, cl, at)
    /\ a' = a + 1
    /\ lo <= entry_price[a] - (at * breakeven_threshold)

\* The mark, once set, stays set while the position stays open.
LatchKept ==
    \A b \in Assets :
        (/\ is_breakeven[b]
         /\ in_position_long[b] \/ in_position_short[b]
         /\ in_position_long'[b] \/ in_position_short'[b]) => is_breakeven'[b]

\* C20: at the first bar whose high reaches entry_price +
\* breakeven_threshold * ATR an open long position not yet in breakeven
\* mode is marked breakeven and its stop becomes max(current stop,
\* entry_price * 1.002); the mark stays until the position is closed; the
\* short side is the mirror image.
C20_BreakevenLatch ==
    [][/\ \A hi \in Prices, cl \in Prices, at \in AtrVals :
             LongReach(hi, cl, at) =>
                /\ is_breakeven'[a]
                /\ stop_loss'[a] = Max(LongTrailing(a, hi, at), BeLevelLong(a))
       /\ \A lo \in Prices, cl \in Prices, at \in AtrVals :
             ShortReach(lo, cl, at) =>
                /\ is_breakeven'[a]
                /\ stop_loss'[a] = Min(ShortTrailing(a, lo, at), BeLevelShort(a))
       /\ LatchKept]_vars

\* C20, amended: at such a bar the stop becomes max(stop after the bar's
\* trailing update, entry_price * 1.002), and the position is marked
\* breakeven exactly when entry_price * 1.002 is strictly above that stop;
\* otherwise the mark stays false.  The mark stays until the position is
\* closed; the short side is the mirror image.
C20_BreakevenLatchWhenMoved ==
    [][/\ \A hi \in Prices, cl \in Prices, at \in AtrVals :
             LongReach(hi, cl, at) =>
                /\ is_breakeven'[a] <=> BeLevelLong(a) > LongTrailing(a, hi, at)
                /\ stop_loss'[a] = Max(LongTrailing(a, hi, at), BeLevelLong(a))
       /\ \A lo \in Prices, cl \in Prices, at \in AtrVals :
             ShortReach(lo, cl, at) =>
                /\ is_breakeven'[a] <=> BeLevelShort(a) < ShortTrailing(a, lo, at)
                /\ stop_loss'[a] = Min(ShortTrailing(a, lo, at), BeLevelShort(a))
       /\ LatchKept]_vars

\* A long position entered at the bar before, handled at this bar with an
\* ATR of zero (the stop stands at the highest price, so the high reached
\* the breakeven level), its stop above entry_price * 1.002 and its mark
\* still false.
C20_Witness ==
    /\ CurrentBar
    /\ i >= 2
    /\ \E b \in Assets :
          /\ long_entries[i - 1][b]
          /\ long_exits[i][b]
          /\ stop_loss[b] = highest_price[b]
          /\ stop_loss[b] > BeLevelLong(b)
          /\ highest_price[b] >= entry_price[b]
          /\ ~is_breakeven[b]


\* The step of the exit phase that handles the open long (short) position
\* of asset a for a bar of the given extreme, close and ATR.
LongHandled(hi, cl, at) ==
    /\ pc = "exits"
    /\ a < n_assets
    /\ IsLong(a)
    /\ LongBar(hi, cl, at)
    /\ a' = a + 1

ShortHandled(lo, cl, at) ==
    /\ pc = "exits"
    /\ a < n_assets
    /\ IsShort(a)
    /\ ShortBar(lo, cl, at)
    /\ a' = a + 1

\* C21: an open long position exits at a bar iff the close is at or below
\* the stop as it stands after the bar's own updates (short: at or above);
\* an exit clears the open state and lowers open_trades_count by exactly
\* one; without it the position stays open and the count is unchanged.
C21_ExitIffStopHit ==
    [][/\ \A hi \in Prices, cl \in Prices, at \in AtrVals :
             LongHandled(hi, cl, at) =>
                /\ long_exits'[i][a] <=> cl <= stop_loss'[a]
                /\ in_position_long'[a] <=> ~(cl <= stop_loss'[a])
                /\ open_trades_count' =
                      IF cl <= stop_loss'[a] THEN open_trades_count - 1
                      ELSE open_trades_count
       /\ \A lo \in Prices, cl \in Prices, at \in AtrVals :
             ShortHandled(lo, cl, at) =>
                /\ short_exits'[i][a] <=> cl >= stop_loss'[a]
                /\ in_position_short'[a] <=> ~(cl >= stop_loss'[a])
                /\ open_trades_count' =
                      IF cl >= stop_loss'[a] THEN open_trades_count - 1
                      ELSE open_trades_count]_vars

\* A long position entered at the bar before and closed at this bar on a
\* stop that this bar's own update raised above the entry price, with the
\* budget back at zero.
C21_Witness ==
    /\ AfterExitPhase
    /\ i >= 2
    /\ i < n_time
    /\ open_trades_count = 0
    /\ \E b \in Assets :
          /\ long_entries[i - 1][b]
          /\ long_exits[i][b]
          /\ ~in_position_long[b]
          /\ stop_loss[b] > entry_price[b]


\* The step of the admission loop that admits the asset at the head of the
\* ranking on the given side.
Admitting(side) ==
    /\ pc = "admit"
    /\ a < n_assets
    /\ ~AdmitBreak(sorted_indices[a + 1])
    /\ (dirs[sorted_indices[a + 1]] = 1) <=> (side = 1)
    /\ a' = a + 1

\* The position state of asset b is the same before and after the step.
StateKept(b) ==
    /\ entry_price'[b] = entry_price[b]
    /\ highest_price'[b] = highest_price[b]
    /\ lowest_price'[b] = lowest_price[b]
    /\ stop_loss'[b] = stop_loss[b]
    /\ is_breakeven'[b] = is_breakeven[b]
    /\ in_position_long'[b] = in_position_long[b]
    /\ in_position_short'[b] = in_position_short[b]

\* The state an admission at close cl, high hi, low lo and ATR at leaves
\* in asset b: a function of the bar alone.
FreshState(b, cl, hi, lo, at, side) ==
    /\ entry_price'[b] = cl
    /\ highest_price'[b] = hi
    /\ lowest_price'[b] = lo
    /\ is_breakeven'[b] = FALSE
    /\ stop_loss'[b] = cl - side * (at * trailing_multiplier)
    /\ in_position_long'[b] = (side = 1)
    /\ in_position_short'[b] = (side = -1)

\* C22: every admission sets entry_price to the close, highest_price to the
\* high, lowest_price to the low, is_breakeven to false and stop_loss to
\* entry_price -/+ trailing_multiplier * ATR, and leaves the state of every
\* other asset alone; nothing of the asset's earlier state survives.
C22_AdmissionResets ==
    [][\A cl \in Prices, hi \in Prices, lo \in Prices, at \in AtrVals :
          /\ (Admitting(1) /\ LongOpen(sorted_indices[a + 1], cl, hi, lo, at)) =>
                /\ FreshState(sorted_indices[a + 1], cl, hi, lo, at, 1)
                /\ \A b \in Assets \ {sorted_indices[a + 1]} : StateKept(b)
          /\ (Admitting(-1) /\ ShortOpen(sorted_indices[a + 1], cl, hi, lo, at)) =>
                /\ FreshState(sorted_indices[a + 1], cl, hi, lo, at, -1)
                /\ \A b \in Assets \ {sorted_indices[a + 1]} : StateKept(b)]_vars

\* The second trade of an asset, admitted at this bar after a first trade
\* that was closed at the bar before, with the breakeven flag clear.
C22_Witness ==
    /\ pc = "admit"
    /\ i >= 3
    /\ i < n_time
    /\ \E b \in Assets :
          /\ long_entries[i][b] \/ short_entries[i][b]
          /\ long_exits[i - 1][b] \/ short_exits[i - 1][b]
          /\ \E t \in 1 .. (i - 2) : long_entries[t][b] \/ short_entries[t][b]
          /\ ~is_breakeven[b]

\* The asset the current step of a loop handles: the loop index in the
\* exit phase and the scan, the head of the ranking in the admission loop.
HandledAsset ==
    IF pc = "admit"
    THEN IF a < n_assets THEN sorted_indices[a + 1] ELSE n_assets
    ELSE a

\* The entry and exit columns of asset b are the same before and after the
\* step.
ColumnsKept(b) ==
    \A t \in DOMAIN long_entries :
        /\ long_entries'[t][b] = long_entries[t][b]
        /\ long_exits'[t][b] = long_exits[t][b]
        /\ short_entries'[t][b] = short_entries[t][b]
        /\ short_exits'[t][b] = short_exits[t][b]

C28_CountMatchesFlags ==
    (AfterExitPhase \/ AfterEntryPhase) =>
        open_trades_count =
            Cardinality({b \in Assets : in_position_long[b] \/ in_position_short[b]})

\* A bar whose exit phase closed one of two open positions: the counter
\* went from two to one with one asset still in position.
C28_Witness ==
    /\ AfterExitPhase
    /\ i >= 2
    /\ open_trades_count = 1
    /\ Cardinality(EntriesAt(i - 1)) = 2
    /\ Cardinality(ExitsAt(i)) = 1

\* C29: at a bar whose high reaches entry_price + breakeven_threshold * ATR
\* the stop of an open LONG position is at least entry_price * 1.002 when
\* the bar has been handled, whether or not the position is marked
\* breakeven, and a stop that is at least entry_price * 1.002 stays so in
\* every step taken while the position is open, its entry price being
\* kept; so the stop is at least entry_price * 1.002 from the bar of the
\* reach until the exit.  SHORT: the mirror image with entry_price * 0.998.
C29_StopBeyondBreakeven ==
    [][/\ \A hi \in Prices, cl \in Prices, at \in AtrVals :
             (LongHandled(hi, cl, at) /\ hi >= entry_price[a] + (at * breakeven_threshold))
                => stop_loss'[a] >= BeLevelLong(a)
       /\ \A lo \in Prices, cl \in Prices, at \in AtrVals :
             (ShortHandled(lo, cl, at) /\ lo <= entry_price[a] - (at * breakeven_threshold))
                => stop_loss'[a] <= BeLevelShort(a)
       /\ \A b \in Assets :
             /\ (in_position_long[b] /\ stop_loss[b] >= BeLevelLong(b)) =>
                   /\ entry_price'[b] = entry_price[b]
                   /\ stop_loss'[b] >= BeLevelLong(b)
             /\ (in_position_short[b] /\ stop_loss[b] <= BeLevelShort(b)) =>
                   /\ entry_price'[b] = entry_price[b]
                   /\ stop_loss'[b] <= BeLevelShort(b)]_vars

\* A long position entered two bars ago whose high reached the breakeven
\* level at the bar before (it is marked breakeven, and that bar is the
\* only one it has been through), still open at this bar with its stop at
\* entry_price * 1.002.
C29_Witness ==
    /\ pc = "exits"
    /\ i >= 3
    /\ i < n_time
    /\ \E b \in Assets :
          /\ b >= a
          /\ long_entries[i - 2][b]
          /\ in_position_long[b]
          /\ is_breakeven[b]
          /\ highest_price[b] >= entry_price[b] + (MaxAtr * breakeven_threshold)
          /\ stop_loss[b] = BeLevelLong(b)

\* C30: at a bar whose ATR is 0 and whose close lies between its low and
\* its high, every position admitted at the bar before, long or short, is
\* closed: the exit is recorded at the bar and the position flag is
\* cleared.
C30_ZeroAtrOneBar ==
    [][/\ \A hi \in Prices, cl \in Prices :
             (LongHandled(hi, cl, 0) /\ long_entries[i - 1][a] /\ cl <= hi) =>
                /\ long_exits'[i][a]
                /\ ~in_position_long'[a]
       /\ \A lo \in Prices, cl \in Prices :
             (ShortHandled(lo, cl, 0) /\ short_entries[i - 1][a] /\ lo <= cl) =>
                /\ short_exits'[i][a]
                /\ ~in_position_short'[a]]_vars

\* A long position admitted at the bar before, at a close below the
\* highest price seen, and closed at this bar with its stop standing at
\* the highest price: the bar's ATR was 0.
C30_Witness ==
    /\ AfterExitPhase
    /\ i >= 2
    /\ \E b \in Assets :
          /\ long_entries[i - 1][b]
          /\ long_exits[i][b]
          /\ ~in_position_long[b]
          /\ highest_price[b] > entry_price[b]
          /\ stop_loss[b] = highest_price[b]

====
